---- MODULE Spec2Model ----
(***************************************************************************)
(* A model of rclone-golib: the transfer Manager (the Store), the stderr   *)
(* progress decoder, Executor.Execute and Executor.ExecuteWithRetry.       *)
(*                                                                         *)
(* One module holds several specifications, one per subsystem, over one    *)
(* set of variables; a specification leaves the variables of the other     *)
(* subsystems at their idle values.                                        *)
(*   SpecStore  the Manager's operations, each atomic under m.mu           *)
(*   SpecRace   a writer inside the Manager's critical sections and the    *)
(*              renderer reading a *Transfer it got from GetAll            *)
(*   SpecDecoder parseRcloneOutput on a reader that delivers a stream in   *)
(*              arbitrary chunks and then reports end of stream            *)
(*   SpecExec   Executor.Execute: the subprocess, its stderr pipe, the     *)
(*              decoder goroutine, cmd.Wait, and the caller of the example *)
(*   SpecRetry  Executor.ExecuteWithRetry on any configuration, with       *)
(*              Execute's result and the cancellation left open            *)
(*   SpecUnknownId the caller and Execute of SpecExec for an id that was   *)
(*              never Added                                                *)
(*   SpecClassify  ClassifyError on an error chain                         *)
(*   SpecParseSize parseSize on a value text and a unit                    *)
(*   SpecArgs   the argument vector Execute builds from its options        *)
(*   SpecRender the Bubble Tea Model: ticks, doneMsg and the quit keys     *)
(*              beside the Manager; SpecRenderFair adds the tick timer     *)
(*   SpecExecCancel  SpecExec with opts.Context cancelled at any moment;   *)
(*              SpecExecCancelFair adds the scheduling of the goroutines   *)
(*   SpecMutex  tasks taking m.mu.Lock and m.mu.RLock around the           *)
(*              statements of the Manager's methods                        *)
(*   SpecRetryExec  ExecuteWithRetry calling the Execute of SpecExec       *)
(*   SpecPreflight  the validation functions and ClassifyError on the      *)
(*              error they return                                          *)
(*   SpecLine   the decoder's loop body on one progress line               *)
(***************************************************************************)
EXTENDS Integers, Sequences, FiniteSets, TLC

VARIABLES
    transfers,   \* Manager.transfers: map id -> Transfer (a function on the tracked ids)
    order,       \* Manager.order: ids in insertion order
    now,         \* the wall clock read by time.Now(); 0 is the zero time.Time
    mu,          \* Manager.mu: "free", or "writer" while a Lock is held
    wpc,         \* the writing task: the statement of the Manager method it is at
    wq,          \* the Manager calls the writing task has still to make
    rdpc,        \* the renderer: the statement of renderTransfer it is at
    snap,        \* the field values the renderer has read from its *Transfer
    committed,   \* history: the record's value before and after every Manager call
    pipe,        \* the stderr pipe: what was written to it and not yet read
    rclosed,     \* the parent's read end of the pipe has been closed
    buf,         \* bufio.Scanner: s.buf[s.start:s.end], read and not yet tokenized
    serr,        \* bufio.Scanner: s.err ("nil", "EOF", "closed", "toolong")
    dpc,         \* the decoder goroutine: "idle", "scan", "read", "done"
    tokens,      \* history: the tokens the split function has returned
    applied,     \* history: the tuples the decoder has passed to UpdateProgress
    written,     \* history: everything the subprocess has written to stderr
    proc,        \* the subprocess: "none", "running", "exited"
    exitCode,    \* its exit code once exited
    epc,         \* Execute: "idle", "wait", "join", "returned"
    cmdErr,      \* Execute's cmdErr
    ret,         \* the error Execute returned
    cpc,         \* the caller (main of the example): "idle", "start", "execute", "done"
    inCfg,       \* ExecuteWithRetry: the RetryConfig it was called with
    retryCfg,    \* ExecuteWithRetry: retryCfg once the defaults are applied
    attempt,     \* ExecuteWithRetry: the loop variable
    delay,       \* ExecuteWithRetry: delay, in milliseconds
    lastErr,     \* ExecuteWithRetry: lastErr
    rpc,         \* ExecuteWithRetry: "idle", "entry", "check", "exec", "backoff", "done"
    rret,        \* the error ExecuteWithRetry returned
    ctxDone,     \* opts.Context is cancelled
    calls,       \* history: how many times Execute was invoked
    waits,       \* history: the backoff delays waited out, in order
    firstOk,     \* history: the attempt whose Execute first returned nil, 0 if none
    cancelAt,    \* history: where ExecuteWithRetry was (rpc, attempt) when the context was
                 \* cancelled; for Execute alone, whether it was waiting on a running subprocess
    clsErr,      \* ClassifyError: the error it is called with
    clsRes,      \* ClassifyError: the *ClassifiedError it returned
    clsPc,       \* ClassifyError: "idle", "call", "done"
    psValue,     \* parseSize: its value argument
    psUnit,      \* parseSize: its unit argument
    psRes,       \* parseSize: the int64 it returned
    psPc,        \* parseSize: "idle", "call", "done"
    argOpts,     \* Execute: the RcloneOptions it is called with
    argVec,      \* Execute: the args it gives exec.CommandContext
    argPc,       \* Execute's argument construction: "idle", "call", "done"
    pfIn,        \* a pre-flight check: the check called, its arguments and what it finds
    arch,        \* GOARCH of the build: it decides what int64(f) is for an f out of range
    done,        \* the renderer's Model.done
    uipc,        \* the renderer: "ticking" (a tick is armed), the statement of the tick
                 \* it is at, "grace" (the doneMsg timer runs), "quit"
    uiStats,     \* the renderer's tick: pending and inProgress as Stats returned them
    uiList,      \* the renderer's tick: the []*Transfer of GetAll it has still to range over
    bars,        \* the renderer's Model.progress: the ids that have a progress bar
    readers,     \* Manager.mu: the number of RLock holders
    tpc,         \* the tasks calling the Manager: for each its call and the statement it is at
    lnLine,      \* the decoder's loop body: the line it is given
    lnOut,       \* the decoder's loop body: the UpdateProgress calls it made
    lnPc         \* the decoder's loop body: "idle", "call", "done"

storeVars == <<transfers, order, now>>
raceVars == <<mu, wpc, wq, rdpc, snap, committed>>
decVars == <<pipe, rclosed, buf, serr, dpc, tokens, applied, written>>
execVars == <<proc, exitCode, epc, cmdErr, ret, cpc>>
retryVars == <<inCfg, retryCfg, attempt, delay, lastErr, rpc, rret, ctxDone,
               calls, waits, firstOk, cancelAt>>
pureVars == <<clsErr, clsRes, clsPc, psValue, psUnit, psRes, psPc, argOpts, argVec, argPc,
              pfIn, arch>>
uiVars == <<done, uipc, bars, uiStats, uiList>>
lockVars == <<readers, tpc>>
lineVars == <<lnLine, lnOut, lnPc>>

vars == <<transfers, order, now, mu, wpc, wq, rdpc, snap, committed,
          pipe, rclosed, buf, serr, dpc, tokens, applied, written,
          proc, exitCode, epc, cmdErr, ret, cpc,
          inCfg, retryCfg, attempt, delay, lastErr, rpc, rret, ctxDone,
          calls, waits, firstOk, cancelAt,
          clsErr, clsRes, clsPc, psValue, psUnit, psRes, psPc,
          argOpts, argVec, argPc, pfIn, arch,
          done, uipc, bars, uiStats, uiList, readers, tpc, lnLine, lnOut, lnPc>>

(***************************************************************************)
(* Bounds of the model.                                                    *)
(***************************************************************************)
MaxClock == 2
MaxOrder == 3

Ids == {"t1", "t2"}
Sources == {"/src/a"}
Destinations == {"remote:b"}
Nil == "nil"
Errs == {"exit status 1"}

\* The (progress, bytesCopied, bytesTotal) arguments UpdateProgress is called with.
Tuples == { <<10, 1024, 10240>>, <<55, 5632, 10240>> }

(***************************************************************************)
(* transfer.go: Status, Transfer, Manager                                  *)
(***************************************************************************)
StatusPending == "pending"
StatusInProgress == "in_progress"
StatusCompleted == "completed"
StatusFailed == "failed"

Statuses == {StatusPending, StatusInProgress, StatusCompleted, StatusFailed}

IsTerminal(s) == s \in {StatusCompleted, StatusFailed}

\* A map with key k set to v (Go: m[k] = v).
MapPut(m, k, v) == [i \in (DOMAIN m) \cup {k} |-> IF i = k THEN v ELSE m[i]]

EmptyMap == [i \in {} |-> 0]

NewManager ==
    /\ transfers = EmptyMap
    /\ order = <<>>

\* The Transfer literal of Add: the fields it does not name are zero values.
NewTransfer(id, source, destination) ==
    [ID |-> id, Source |-> source, Destination |-> destination,
     Status |-> StatusPending, Progress |-> 0,
     BytesTotal |-> 0, BytesCopied |-> 0,
     StartTime |-> 0, EndTime |-> 0, Error |-> Nil]

AddMerging(id, source, destination) ==
    /\ transfers' = MapPut(transfers, id,
                           IF id \in DOMAIN transfers
                           THEN [transfers[id] EXCEPT !.Status = StatusPending]
                           ELSE NewTransfer(id, source, destination))
    /\ order' = Append(order, id)

Add(id, source, destination) ==
    /\ transfers' = MapPut(transfers, id, NewTransfer(id, source, destination))
    /\ order' = Append(order, id)

StartCreating(id) ==
    transfers' = MapPut(transfers, id,
                        [NewTransfer(id, "", "") EXCEPT !.Status = StatusInProgress,
                                                        !.StartTime = now])

Start(id) ==
    transfers' = IF id \in DOMAIN transfers
                 THEN [transfers EXCEPT ![id].Status = StatusInProgress,
                                        ![id].StartTime = now]
                 ELSE transfers

UpdateProgressCompleting(id, progress, bytesCopied, bytesTotal) ==
    transfers' = IF id \in DOMAIN transfers
                 THEN [transfers EXCEPT ![id].Progress = progress,
                                        ![id].BytesCopied = bytesCopied,
                                        ![id].BytesTotal = bytesTotal,
                                        ![id].Status = IF bytesCopied >= 5632 THEN StatusCompleted
                                                       ELSE @]
                 ELSE transfers

UpdateProgress(id, progress, bytesCopied, bytesTotal) ==
    transfers' = IF id \in DOMAIN transfers
                 THEN [transfers EXCEPT ![id].Progress = progress,
                                        ![id].BytesCopied = bytesCopied,
                                        ![id].BytesTotal = bytesTotal]
                 ELSE transfers

CompleteKeepsProgress(id) ==
    transfers' = IF id \in DOMAIN transfers
                 THEN [transfers EXCEPT ![id].Status = StatusCompleted,
                                        ![id].EndTime = now]
                 ELSE transfers

Complete(id) ==
    transfers' = IF id \in DOMAIN transfers
                 THEN [transfers EXCEPT ![id].Status = StatusCompleted,
                                        ![id].Progress = 100,
                                        ![id].EndTime = now]
                 ELSE transfers

Fail(id, err) ==
    transfers' = IF id \in DOMAIN transfers
                 THEN [transfers EXCEPT ![id].Status = StatusFailed,
                                        ![id].EndTime = now,
                                        ![id].Error = err]
                 ELSE transfers

\* Transfer.Duration(): time.Since(t.StartTime) is now - StartTime.
Duration(t) ==
    IF t.StartTime = 0 THEN 0
    ELSE IF t.EndTime = 0 THEN now - t.StartTime
    ELSE t.EndTime - t.StartTime

Get(id) ==
    IF id \in DOMAIN transfers
    THEN [t |-> transfers[id], exists |-> TRUE]
    ELSE [t |-> Nil, exists |-> FALSE]

RECURSIVE GetAllFrom(_)
GetAllFrom(ord) ==
    IF ord = <<>> THEN <<>>
    ELSE (IF Head(ord) \in DOMAIN transfers THEN <<transfers[Head(ord)]>> ELSE <<>>)
         \o GetAllFrom(Tail(ord))

GetAll == GetAllFrom(order)

Stats ==
    [pending    |-> Cardinality({i \in DOMAIN transfers : transfers[i].Status = StatusPending}),
     inProgress |-> Cardinality({i \in DOMAIN transfers : transfers[i].Status = StatusInProgress}),
     completed  |-> Cardinality({i \in DOMAIN transfers : transfers[i].Status = StatusCompleted}),
     failed     |-> Cardinality({i \in DOMAIN transfers : transfers[i].Status = StatusFailed})]

(***************************************************************************)
(* SpecStore: any caller may invoke any Manager operation at any time.     *)
(* Every operation runs under m.mu.Lock, so each is one atomic step.       *)
(***************************************************************************)
\* The variables SpecStore leaves alone.
notStore == <<uiVars, lockVars, lineVars, raceVars, decVars, execVars, retryVars, pureVars>>

Tick ==
    /\ now < MaxClock
    /\ now' = now + 1
    /\ UNCHANGED <<transfers, order, notStore>>

StoreAdd ==
    \E id \in Ids, s \in Sources, d \in Destinations :
        /\ Len(order) < MaxOrder
        /\ Add(id, s, d)
        /\ UNCHANGED <<now, notStore>>

StoreStart ==
    \E id \in Ids : Start(id) /\ UNCHANGED <<order, now, notStore>>

StoreUpdateProgress ==
    \E id \in Ids, tup \in Tuples :
        UpdateProgress(id, tup[1], tup[2], tup[3]) /\ UNCHANGED <<order, now, notStore>>

StoreComplete ==
    \E id \in Ids : Complete(id) /\ UNCHANGED <<order, now, notStore>>

StoreFail ==
    \E id \in Ids, e \in Errs : Fail(id, e) /\ UNCHANGED <<order, now, notStore>>

\* The idle values of the variables of the renderer, of the tasks that call
\* the Manager concurrently and of the decoder's loop body run on its own.
IdleUi ==
    /\ done = FALSE
    /\ uipc = "idle"
    /\ bars = {}
    /\ uiStats = <<>>
    /\ uiList = <<>>

IdleLock ==
    /\ readers = 0
    /\ tpc = <<>>

IdleLine ==
    /\ lnLine = <<>>
    /\ lnOut = <<>>
    /\ lnPc = "idle"

\* The idle values of the variables of SpecRace.
IdleRace ==
    /\ mu = "free"
    /\ wpc = "idle"
    /\ wq = <<>>
    /\ rdpc = "idle"
    /\ snap = <<>>
    /\ committed = {}

\* The idle values of the variables of the decoder and of Execute.
IdleDec ==
    /\ pipe = <<>>
    /\ rclosed = FALSE
    /\ buf = <<>>
    /\ serr = Nil
    /\ dpc = "idle"
    /\ tokens = <<>>
    /\ applied = <<>>
    /\ written = <<>>

IdleExec ==
    /\ proc = "none"
    /\ exitCode = 0
    /\ epc = "idle"
    /\ cmdErr = Nil
    /\ ret = Nil
    /\ cpc = "idle"

\* A nil error, and RetryConfig's zero value.
RNil == [kind |-> "nil"]

\* The context has not been cancelled.
NotCancelled == [pc |-> "none", attempt |-> 0]

ZeroRetryConfig == [MaxAttempts |-> 0, InitialDelay |-> 0, MaxDelay |-> 0, Multiplier |-> 0]

\* The idle values of the variables of ExecuteWithRetry.
IdleRetry ==
    /\ inCfg = ZeroRetryConfig
    /\ retryCfg = ZeroRetryConfig
    /\ attempt = 0
    /\ delay = 0
    /\ lastErr = RNil
    /\ rpc = "idle"
    /\ rret = RNil
    /\ ctxDone = FALSE
    /\ calls = 0
    /\ waits = <<>>
    /\ firstOk = 0
    /\ cancelAt = NotCancelled

\* The idle values of the variables of ClassifyError and parseSize.
IdlePure ==
    /\ clsErr = <<>>
    /\ clsRes = <<>>
    /\ clsPc = "idle"
    /\ psValue = <<>>
    /\ psUnit = <<>>
    /\ psRes = <<>>
    /\ psPc = "idle"
    /\ argOpts = <<>>
    /\ argVec = <<>>
    /\ argPc = "idle"
    /\ pfIn = <<>>
    /\ arch = "amd64"

InitStore ==
    /\ IdleUi
    /\ IdleLock
    /\ IdleLine
    /\ NewManager
    /\ now = 1
    /\ IdleRace
    /\ IdlePure
    /\ IdleDec
    /\ IdleExec
    /\ IdleRetry

NextStore ==
    \/ Tick
    \/ StoreAdd
    \/ StoreStart
    \/ StoreUpdateProgress
    \/ StoreComplete
    \/ StoreFail

SpecStore == InitStore /\ [][NextStore]_vars

\* A step of Start, UpdateProgress, Complete or Fail called with this id.
LifecycleCall(id) ==
    \/ Start(id)
    \/ Complete(id)
    \/ \E e \in Errs : Fail(id, e)
    \/ \E tup \in Tuples : UpdateProgress(id, tup[1], tup[2], tup[3])

\* C1: terminal states are absorbing: once a record's Status is Completed or
\* Failed, no Start, UpdateProgress, Complete or Fail call on its id changes
\* the Status.
C1_TerminalAbsorbing ==
    [][\A id \in Ids :
          (/\ id \in DOMAIN transfers
           /\ IsTerminal(transfers[id].Status)
           /\ LifecycleCall(id))
          => transfers'[id].Status = transfers[id].Status]_vars

(***************************************************************************)
(* SpecRace: the program of the examples at statement granularity.  One    *)
(* task (the decoder, then the caller once Execute has returned) calls     *)
(* UpdateProgress and then Complete on transfer RaceId; each call holds    *)
(* m.mu.Lock from its first statement to its last.  The renderer's tick    *)
(* calls GetAll, which returns the *Transfer pointers under RLock, and     *)
(* renderTransfer then reads the record's fields with no lock held.        *)
(***************************************************************************)
RaceId == "t1"

RaceCalls ==
    << [op |-> "update", tup |-> <<10, 1024, 10240>>],
       [op |-> "update", tup |-> <<55, 5632, 10240>>],
       [op |-> "complete", tup |-> <<0, 0, 0>>] >>

\* What a reader can tell apart: the fields renderTransfer prints.
Printed(t) ==
    [Status |-> t.Status, Progress |-> t.Progress,
     BytesCopied |-> t.BytesCopied, BytesTotal |-> t.BytesTotal]

\* The record as the call c leaves it once all its writes are done:
\* UpdateProgress writes Progress, BytesCopied and BytesTotal; Complete
\* writes Status, Progress and EndTime = time.Now().
Outcome(t, c) ==
    IF c.op = "update"
    THEN [t EXCEPT !.Progress = c.tup[1], !.BytesCopied = c.tup[2], !.BytesTotal = c.tup[3]]
    ELSE [t EXCEPT !.Status = StatusCompleted, !.Progress = 100, !.EndTime = now]

notRace == <<uiVars, lockVars, lineVars, order, now, decVars, execVars, retryVars, pureVars>>

\* m.mu.Lock() of UpdateProgress or Complete, and the lookup m.transfers[id].
WLock ==
    /\ wpc = "idle"
    /\ wq # <<>>
    /\ mu = "free"
    /\ mu' = "writer"
    /\ wpc' = IF RaceId \notin DOMAIN transfers THEN "unlock"
              ELSE IF Head(wq).op = "update" THEN "upd_progress" ELSE "cmp_status"
    /\ committed' = IF RaceId \notin DOMAIN transfers THEN committed
                    ELSE committed \cup {Printed(Outcome(transfers[RaceId], Head(wq)))}
    /\ UNCHANGED <<transfers, wq, rdpc, snap, notRace>>

\* t.Progress = progress
UpdSetProgress ==
    /\ wpc = "upd_progress"
    /\ transfers' = [transfers EXCEPT ![RaceId].Progress = Head(wq).tup[1]]
    /\ wpc' = "upd_copied"
    /\ UNCHANGED <<mu, wq, rdpc, snap, committed, notRace>>

\* t.BytesCopied = bytesCopied
UpdSetBytesCopied ==
    /\ wpc = "upd_copied"
    /\ transfers' = [transfers EXCEPT ![RaceId].BytesCopied = Head(wq).tup[2]]
    /\ wpc' = "upd_total"
    /\ UNCHANGED <<mu, wq, rdpc, snap, committed, notRace>>

\* t.BytesTotal = bytesTotal
UpdSetBytesTotal ==
    /\ wpc = "upd_total"
    /\ transfers' = [transfers EXCEPT ![RaceId].BytesTotal = Head(wq).tup[3]]
    /\ wpc' = "unlock"
    /\ UNCHANGED <<mu, wq, rdpc, snap, committed, notRace>>

\* t.Status = StatusCompleted
CmpSetStatus ==
    /\ wpc = "cmp_status"
    /\ transfers' = [transfers EXCEPT ![RaceId].Status = StatusCompleted]
    /\ wpc' = "cmp_progress"
    /\ UNCHANGED <<mu, wq, rdpc, snap, committed, notRace>>

\* t.Progress = 100
CmpSetProgress ==
    /\ wpc = "cmp_progress"
    /\ transfers' = [transfers EXCEPT ![RaceId].Progress = 100]
    /\ wpc' = "cmp_end"
    /\ UNCHANGED <<mu, wq, rdpc, snap, committed, notRace>>

\* t.EndTime = time.Now()
CmpSetEndTime ==
    /\ wpc = "cmp_end"
    /\ transfers' = [transfers EXCEPT ![RaceId].EndTime = now]
    /\ wpc' = "unlock"
    /\ UNCHANGED <<mu, wq, rdpc, snap, committed, notRace>>

\* The deferred m.mu.Unlock(): the call returns.
WUnlock ==
    /\ wpc = "unlock"
    /\ mu' = "free"
    /\ wpc' = "idle"
    /\ wq' = Tail(wq)
    /\ UNCHANGED <<transfers, rdpc, snap, committed, notRace>>

\* Model.View: m.manager.GetAll() under RLock returns []*Transfer, the
\* records themselves; renderTransfer(t) is then called on the pointer.
RdGetAll ==
    /\ rdpc = "idle"
    /\ mu = "free"
    /\ Len(GetAll) > 0
    /\ rdpc' = "prefix"
    /\ snap' = <<>>
    /\ UNCHANGED <<transfers, mu, wpc, wq, committed, notRace>>

\* switch t.Status: the status prefix of the first line
RdPrefix ==
    /\ rdpc = "prefix"
    /\ snap' = MapPut(snap, "Status", transfers[RaceId].Status)
    /\ rdpc' = "is_active"
    /\ UNCHANGED <<transfers, mu, wpc, wq, committed, notRace>>

\* if t.Status == StatusInProgress
RdIsInProgress ==
    /\ rdpc = "is_active"
    /\ rdpc' = IF transfers[RaceId].Status = StatusInProgress THEN "has_progress" ELSE "done"
    /\ UNCHANGED <<transfers, mu, wpc, wq, snap, committed, notRace>>

\* if t.Progress > 0
RdHasProgress ==
    /\ rdpc = "has_progress"
    /\ rdpc' = IF transfers[RaceId].Progress > 0 THEN "has_total" ELSE "done"
    /\ UNCHANGED <<transfers, mu, wpc, wq, snap, committed, notRace>>

\* if t.BytesTotal > 0
RdHasTotal ==
    /\ rdpc = "has_total"
    /\ rdpc' = IF transfers[RaceId].BytesTotal > 0 THEN "copied" ELSE "done"
    /\ UNCHANGED <<transfers, mu, wpc, wq, snap, committed, notRace>>

\* FormattedBytes(t.BytesCopied)
RdBytesCopied ==
    /\ rdpc = "copied"
    /\ snap' = MapPut(snap, "BytesCopied", transfers[RaceId].BytesCopied)
    /\ rdpc' = "total"
    /\ UNCHANGED <<transfers, mu, wpc, wq, committed, notRace>>

\* FormattedBytes(t.BytesTotal)
RdBytesTotal ==
    /\ rdpc = "total"
    /\ snap' = MapPut(snap, "BytesTotal", transfers[RaceId].BytesTotal)
    /\ rdpc' = "percent"
    /\ UNCHANGED <<transfers, mu, wpc, wq, committed, notRace>>

\* t.Progress, the last argument of the stats line
RdProgress ==
    /\ rdpc = "percent"
    /\ snap' = MapPut(snap, "Progress", transfers[RaceId].Progress)
    /\ rdpc' = "done"
    /\ UNCHANGED <<transfers, mu, wpc, wq, committed, notRace>>

\* renderTransfer returns; the next tick renders again.
RdReturn ==
    /\ rdpc = "done"
    /\ rdpc' = "idle"
    /\ UNCHANGED <<transfers, mu, wpc, wq, snap, committed, notRace>>

\* After manager.Add(RaceId, ...) and manager.Start(RaceId) of the examples.
InitRace ==
    /\ IdleUi
    /\ IdleLock
    /\ IdleLine
    /\ now = 1
    /\ transfers = [i \in {RaceId} |->
                      [NewTransfer(RaceId, "/src/a", "remote:b")
                          EXCEPT !.Status = StatusInProgress, !.StartTime = 1]]
    /\ order = <<RaceId>>
    /\ mu = "free"
    /\ wpc = "idle"
    /\ wq = RaceCalls
    /\ rdpc = "idle"
    /\ snap = <<>>
    /\ committed = {Printed(transfers[RaceId])}
    /\ IdlePure
    /\ IdleDec
    /\ IdleExec
    /\ IdleRetry

NextRace ==
    \/ WLock
    \/ UpdSetProgress
    \/ UpdSetBytesCopied
    \/ UpdSetBytesTotal
    \/ CmpSetStatus
    \/ CmpSetProgress
    \/ CmpSetEndTime
    \/ WUnlock
    \/ RdGetAll
    \/ RdPrefix
    \/ RdIsInProgress
    \/ RdHasProgress
    \/ RdHasTotal
    \/ RdBytesCopied
    \/ RdBytesTotal
    \/ RdProgress
    \/ RdReturn

SpecRace == InitRace /\ [][NextRace]_vars

\* The renderer has printed a whole stats line.
SnapComplete ==
    /\ rdpc = "done"
    /\ DOMAIN snap = {"Status", "BytesCopied", "BytesTotal", "Progress"}

\* C2: no torn reads: the fields a reader has taken from a transfer it got
\* from Get or GetAll are together the record as some completed Manager
\* call (or Add and Start) left it, never a mix of two calls' writes.
C2_NoTornReads ==
    SnapComplete =>
        \E c \in committed :
            /\ c.Status = snap["Status"]
            /\ c.Progress = snap["Progress"]
            /\ c.BytesCopied = snap["BytesCopied"]
            /\ c.BytesTotal = snap["BytesTotal"]

(***************************************************************************)
(* rclone.go: parseRcloneOutput and parseSize.                             *)
(*                                                                         *)
(* The stream is a sequence of units.  A unit is one byte (CR, LF, or the  *)
(* byte "x", which is no terminator and part of no progress text) or a run *)
(* of bytes that holds no terminator and that the reader never has to cut  *)
(* (the split function only asks for more data until a terminator or the   *)
(* end of the stream shows up):                                            *)
(*   "L10"  Transferred:   1 KiB / 10 KiB, 10%, 1 KiB/s, ETA 9s            *)
(*   "L55"  Transferred:   5.5 KiB / 10 KiB, 55%, 1 KiB/s, ETA 4s          *)
(*   "L90"  Transferred:   9 kB / 10 kB, 90%                               *)
(*   "L50"  Transferred:   512.0 MiB / 1.0 GiB, 50%, 10 MiB/s, ETA 51s     *)
(*   "L150" Transferred:   15 KiB / 10 KiB, 150%                           *)
(*   "BIG"  MaxTokenSize bytes "x"                                         *)
(*   "ERR"  a diagnostic line of rclone, DiagText                          *)
(***************************************************************************)
CR == "\r"
LF == "\n"

MaxTokenSize == 1048576

Units == {CR, LF, "x", "L10", "L55", "L90", "L50", "L150", "BIG"}

\* The diagnostic line rclone writes to stderr when the remote refuses access.
DiagText == "Failed to copy: 403 Forbidden"

\* The number of bytes of a unit.
UnitBytes(u) ==
    CASE u = "L10" -> 51
      [] u = "L55" -> 53
      [] u = "L90" -> 32
      [] u = "L50" -> 58
      [] u = "L150" -> 36
      [] u = "BIG" -> MaxTokenSize
      [] u = "ERR" -> Len(DiagText)
      [] OTHER -> 1

RECURSIVE Weight(_)
Weight(data) == IF data = <<>> THEN 0 ELSE UnitBytes(Head(data)) + Weight(Tail(data))

\* An int64 that is not negative is kept as its digits in base 1024, the
\* least significant first, with no zero as its last digit: 1024^4 and 1024^5
\* are beyond the integers of the model checker.
RECURSIVE Int64(_)
Int64(n) == IF n = 0 THEN <<>> ELSE <<n % 1024>> \o Int64(n \div 1024)

\* The integer an int64 stands for, when it is below 2^31.
RECURSIVE ToInt(_)
ToInt(ds) == IF ds = <<>> THEN 0 ELSE Head(ds) + 1024 * ToInt(Tail(ds))

RECURSIVE Normal(_)
Normal(ds) ==
    IF ds # <<>> /\ ds[Len(ds)] = 0 THEN Normal(SubSeq(ds, 1, Len(ds) - 1)) ELSE ds

\* a + b + carry
RECURSIVE AddCarry(_, _, _)
AddCarry(a, b, carry) ==
    IF a = <<>> /\ b = <<>> THEN Int64(carry)
    ELSE LET x == (IF a = <<>> THEN 0 ELSE Head(a)) + (IF b = <<>> THEN 0 ELSE Head(b)) + carry
         IN <<x % 1024>> \o AddCarry(IF a = <<>> THEN <<>> ELSE Tail(a),
                                     IF b = <<>> THEN <<>> ELSE Tail(b), x \div 1024)

\* a * k + carry for one digit k
RECURSIVE MulDigit(_, _, _)
MulDigit(a, k, carry) ==
    IF a = <<>> THEN Int64(carry)
    ELSE LET x == Head(a) * k + carry
         IN <<x % 1024>> \o MulDigit(Tail(a), k, x \div 1024)

\* a * b
RECURSIVE Mul(_, _)
Mul(a, b) ==
    IF a = <<>> \/ b = <<>> THEN <<>>
    ELSE Normal(AddCarry(MulDigit(a, Head(b), 0), <<0>> \o Mul(a, Tail(b)), 0))

\* Quotient and remainder of a by k, 0 < k < 2^20.
RECURSIVE DivRem(_, _)
DivRem(a, k) ==
    IF a = <<>> THEN [q |-> <<>>, r |-> 0]
    ELSE LET hi == DivRem(Tail(a), k)
             x == hi.r * 1024 + Head(a)
         IN [q |-> <<x \div k>> \o hi.q, r |-> x % k]

Div(a, k) == Normal(DivRem(a, k).q)

RECURSIVE Pow10(_)
Pow10(n) == IF n = 0 THEN 1 ELSE 10 * Pow10(n - 1)

DecimalDigits == {"0", "1", "2", "3", "4", "5", "6", "7", "8", "9"}

DigitValue(c) ==
    CASE c = "0" -> 0 [] c = "1" -> 1 [] c = "2" -> 2 [] c = "3" -> 3 [] c = "4" -> 4
      [] c = "5" -> 5 [] c = "6" -> 6 [] c = "7" -> 7 [] c = "8" -> 8 [] c = "9" -> 9

\* The digits of a numeral as one integer, the decimal point left out.
RECURSIVE Mantissa(_, _)
Mantissa(str, acc) ==
    IF str = <<>> THEN acc
    ELSE IF Head(str) = "." THEN Mantissa(Tail(str), acc)
    ELSE Mantissa(Tail(str), acc * 10 + DigitValue(Head(str)))

\* The number of digits after the decimal point.
RECURSIVE Scale(_)
Scale(str) ==
    IF str = <<>> THEN 0
    ELSE IF Head(str) = "." THEN Len(str) - 1
    ELSE Scale(Tail(str))

\* The number of bits of n: 0 for 0, e + 1 for 2^e <= n < 2^(e+1).
RECURSIVE BitLen(_)
BitLen(n) == IF n = 0 THEN 0 ELSE 1 + BitLen(n \div 2)

\* The least j >= 1 with a * 2^j >= b, for 0 < a < b.
RECURSIVE Doublings(_, _)
Doublings(a, b) == IF 2 * a >= b THEN 1 ELSE 1 + Doublings(2 * a, b)

RECURSIVE Pow2Small(_)
Pow2Small(n) == IF n = 0 THEN 1 ELSE 2 * Pow2Small(n - 1)

\* 2^k as an int64's digits.
Pow2(k) == [j \in 1..(k \div 10) |-> 0] \o <<Pow2Small(k % 10)>>

\* a \div 2^k
ShiftRight(a, k) ==
    IF Len(a) <= k \div 10 THEN <<>>
    ELSE Div(SubSeq(a, k \div 10 + 1, Len(a)), Pow2Small(k % 10))

\* The float64 nearest to mant / 10^scale, ties to the even significand, as
\* strconv.ParseFloat rounds a decimal: the value is sig / 2^shift with
\* 2^52 <= sig <= 2^53, and sig = <<>> for zero.  (mant is below 2^31 and
\* scale at most 6, so the value is a normal float64 below 2^31.)
Float64(mant, scale) ==
    IF mant = 0 THEN [sig |-> <<>>, shift |-> 0]
    ELSE LET p == Pow10(scale)
             e == IF mant >= p THEN BitLen(mant \div p) - 1 ELSE 0 - Doublings(mant, p)
             k == 52 - e
             dr == DivRem(Mul(Int64(mant), Pow2(k)), p)
             q == Normal(dr.q)
             up == \/ 2 * dr.r > p
                   \/ 2 * dr.r = p /\ Head(q) % 2 = 1
         IN [sig |-> IF up THEN Normal(AddCarry(q, <<1>>, 0)) ELSE q, shift |-> k]

\* strconv.ParseFloat(str, 64) on a text of decimal digits, points and
\* other characters that are part of no numeral (no sign, exponent, "inf",
\* "nan" or hexadecimal): ok is err == nil.  The text is a numeral when it
\* has at least one digit, at most one point and nothing else; it reads
\* mant / 10^scale, and the float64 returned is sig / 2^shift.
ParseFloat(str) ==
    IF /\ \A j \in 1..Len(str) : str[j] \in DecimalDigits \cup {"."}
       /\ \E j \in 1..Len(str) : str[j] \in DecimalDigits
       /\ Cardinality({j \in 1..Len(str) : str[j] = "."}) <= 1
    THEN LET f == Float64(Mantissa(str, 0), Scale(str))
         IN [ok |-> TRUE, mant |-> Mantissa(str, 0), scale |-> Scale(str),
             sig |-> f.sig, shift |-> f.shift]
    ELSE [ok |-> FALSE, mant |-> 0, scale |-> 0, sig |-> <<>>, shift |-> 0]

\* statsRegex's capture groups 1..5 on each progress text.
Captures(u) ==
    CASE u = "L10" -> [copied |-> <<"1">>, cunit |-> <<"K", "i", "B">>,
                       total |-> <<"1", "0">>, tunit |-> <<"K", "i", "B">>, percent |-> 10]
      [] u = "L55" -> [copied |-> <<"5", ".", "5">>, cunit |-> <<"K", "i", "B">>,
                       total |-> <<"1", "0">>, tunit |-> <<"K", "i", "B">>, percent |-> 55]
      [] u = "L90" -> [copied |-> <<"9">>, cunit |-> <<"k", "B">>,
                       total |-> <<"1", "0">>, tunit |-> <<"k", "B">>, percent |-> 90]
      [] u = "L50" -> [copied |-> <<"5", "1", "2", ".", "0">>, cunit |-> <<"M", "i", "B">>,
                       total |-> <<"1", ".", "0">>, tunit |-> <<"G", "i", "B">>, percent |-> 50]
      [] u = "L150" -> [copied |-> <<"1", "5">>, cunit |-> <<"K", "i", "B">>,
                        total |-> <<"1", "0">>, tunit |-> <<"K", "i", "B">>, percent |-> 150]

IsProgressText(u) == u \in {"L10", "L55", "L90", "L50", "L150"}

\* statsRegex.FindStringSubmatch(line): the pattern is not anchored, so the
\* leftmost progress text of the line matches; <<>> is the nil result.
RECURSIVE FindStringSubmatch(_)
FindStringSubmatch(line) ==
    IF line = <<>> THEN <<>>
    ELSE IF IsProgressText(Head(line)) THEN <<Captures(Head(line))>>
    ELSE FindStringSubmatch(Tail(line))

ToUpperChar(c) ==
    CASE c = "a" -> "A"
      [] c = "b" -> "B"
      [] c = "c" -> "C"
      [] c = "d" -> "D"
      [] c = "e" -> "E"
      [] c = "f" -> "F"
      [] c = "g" -> "G"
      [] c = "h" -> "H"
      [] c = "i" -> "I"
      [] c = "j" -> "J"
      [] c = "k" -> "K"
      [] c = "l" -> "L"
      [] c = "m" -> "M"
      [] c = "n" -> "N"
      [] c = "o" -> "O"
      [] c = "p" -> "P"
      [] c = "q" -> "Q"
      [] c = "r" -> "R"
      [] c = "s" -> "S"
      [] c = "t" -> "T"
      [] c = "u" -> "U"
      [] c = "v" -> "V"
      [] c = "w" -> "W"
      [] c = "x" -> "X"
      [] c = "y" -> "Y"
      [] c = "z" -> "Z"
      [] OTHER -> c

\* strings.ToUpper
ToUpper(str) == [j \in 1..Len(str) |-> ToUpperChar(str[j])]

\* strings.TrimSpace
RECURSIVE TrimSpace(_)
TrimSpace(str) ==
    IF str # <<>> /\ Head(str) = " " THEN TrimSpace(Tail(str))
    ELSE IF str # <<>> /\ str[Len(str)] = " " THEN TrimSpace(SubSeq(str, 1, Len(str) - 1))
    ELSE str

\* strings.TrimSuffix with a suffix of one character
TrimSuffix(str, c) ==
    IF Len(str) > 0 /\ str[Len(str)] = c THEN SubSeq(str, 1, Len(str) - 1) ELSE str

\* The multiplier switch of parseSize.
Multiplier(unit) ==
    CASE unit = <<"K">> -> Int64(1024)
      [] unit = <<"M">> -> Mul(Int64(1024), Int64(1024))
      [] unit = <<"G">> -> Mul(Mul(Int64(1024), Int64(1024)), Int64(1024))
      [] unit = <<"T">> -> Mul(Mul(Mul(Int64(1024), Int64(1024)), Int64(1024)), Int64(1024))
      [] unit = <<"P">> -> Mul(Mul(Mul(Mul(Int64(1024), Int64(1024)), Int64(1024)),
                                   Int64(1024)), Int64(1024))
      [] OTHER -> Int64(1)

\* The builds: GOARCH.
Archs == {"amd64", "arm64"}

\* math.MinInt64 = -8 * 1024^6 and math.MaxInt64 = 8 * 1024^6 - 1 as digits.
MinInt64 == <<0, 0, 0, 0, 0, 0, -8>>
MaxInt64 == <<1023, 1023, 1023, 1023, 1023, 1023, 7>>

\* a < 2^63
FitsInt64(a) == Len(a) < 7 \/ (Len(a) = 7 /\ a[7] < 8)

\* int64(f) for the float64 f = num / 2^shift >= 0: the fraction is dropped.
\* For an f of 2^63 or more the language leaves the result to the
\* implementation: amd64's CVTTSD2SQ gives math.MinInt64, arm64's FCVTZS
\* saturates at math.MaxInt64.
ConvertInt64(num, shift) ==
    LET n == ShiftRight(num, shift) IN
    IF FitsInt64(n) THEN n
    ELSE IF arch = "amd64" THEN MinInt64 ELSE MaxInt64

\* int64(val * float64(multiplier)): val is the float64 ParseFloat rounded
\* the text to; the multiplier is a power of two, so the product is exact.
parseSize(value, unit) ==
    LET val == ParseFloat(value) IN
    IF ~val.ok THEN Int64(0)
    ELSE LET multiplier ==
                 Multiplier(TrimSuffix(TrimSuffix(ToUpper(TrimSpace(unit)), "B"), "I"))
         IN ConvertInt64(Mul(val.sig, multiplier), val.shift)

\* strings.IndexAny(string(data), "\r\n"), counted from 0; -1 when there is none.
RECURSIVE IndexAny(_)
IndexAny(data) ==
    IF data = <<>> THEN -1
    ELSE IF Head(data) \in {CR, LF} THEN 0
    ELSE LET r == IndexAny(Tail(data)) IN IF r < 0 THEN -1 ELSE r + 1

\* The split function: has is token != nil.
SplitFunc(data, atEOF) ==
    IF atEOF /\ Len(data) = 0 THEN [advance |-> 0, token |-> <<>>, has |-> FALSE]
    ELSE LET i == IndexAny(data) IN
         IF i >= 0
         THEN LET advance == i + 1 IN
              [advance |-> IF advance < Len(data) /\ data[i + 1] = CR /\ data[advance + 1] = LF
                           THEN advance + 1 ELSE advance,
               token |-> SubSeq(data, 1, i),
               has |-> TRUE]
         ELSE IF atEOF THEN [advance |-> Len(data), token |-> data, has |-> TRUE]
         ELSE [advance |-> 0, token |-> <<>>, has |-> FALSE]

LineUpdateSwapped(line) ==
    IF line = <<>> THEN <<>>
    ELSE LET matches == FindStringSubmatch(line) IN
         IF matches = <<>> THEN <<>>
         ELSE << <<matches[1].percent,
                   ToInt(parseSize(matches[1].total, matches[1].tunit)),
                   ToInt(parseSize(matches[1].copied, matches[1].cunit))>> >>

\* The tuple the loop body passes to UpdateProgress for a line, as a sequence
\* of at most one tuple: none for an empty or unmatched line.  The byte
\* counts of the progress texts are below 2^31 and kept as integers.
LineUpdate(line) ==
    IF line = <<>> THEN <<>>
    ELSE LET matches == FindStringSubmatch(line) IN
         IF matches = <<>> THEN <<>>
         ELSE << <<matches[1].percent,
                   ToInt(parseSize(matches[1].copied, matches[1].cunit)),
                   ToInt(parseSize(matches[1].total, matches[1].tunit))>> >>

DecId == "t1"

notDec == <<uiVars, lockVars, lineVars, order, now, raceVars, execVars, retryVars, pureVars>>

\* scanner.Scan() with data buffered or s.err set: the split function returns
\* a token, and the loop body runs on it.
DecScanToken ==
    /\ dpc = "scan"
    /\ buf # <<>> \/ serr # Nil
    /\ LET r == SplitFunc(buf, serr # Nil)
           upd == LineUpdate(r.token)
       IN /\ r.has
          /\ buf' = SubSeq(buf, r.advance + 1, Len(buf))
          /\ tokens' = Append(tokens, r.token)
          /\ IF upd = <<>>
             THEN UNCHANGED <<transfers, applied>>
             ELSE /\ UpdateProgress(DecId, upd[1][1], upd[1][2], upd[1][3])
                  /\ applied' = Append(applied, upd[1])
    /\ UNCHANGED <<dpc, pipe, rclosed, serr, written, notDec>>

\* scanner.Scan(): the split function asks for more data; with s.err set Scan
\* returns false and parseRcloneOutput returns.
DecScanMore ==
    /\ dpc = "scan"
    /\ \/ buf = <<>> /\ serr = Nil
       \/ /\ buf # <<>> \/ serr # Nil
          /\ ~SplitFunc(buf, serr # Nil).has
    /\ dpc' = IF serr # Nil THEN "done" ELSE "read"
    /\ UNCHANGED <<transfers, pipe, rclosed, buf, serr, tokens, applied, written, notDec>>

\* scanner.Scan(): the buffer is full at its maximum size: ErrTooLong.
DecTooLong ==
    /\ dpc = "read"
    /\ Weight(buf) >= MaxTokenSize
    /\ serr' = "toolong"
    /\ dpc' = "done"
    /\ UNCHANGED <<transfers, pipe, rclosed, buf, tokens, applied, written, notDec>>

\* s.r.Read returns n > 0 bytes: any chunk of what the pipe holds, as long
\* as the buffer had room for its last unit's first byte.
DecReadChunk ==
    /\ dpc = "read"
    /\ Weight(buf) < MaxTokenSize
    /\ ~rclosed
    /\ \E n \in 1..Len(pipe) :
          /\ Weight(buf \o SubSeq(pipe, 1, n - 1)) < MaxTokenSize
          /\ buf' = buf \o SubSeq(pipe, 1, n)
          /\ pipe' = SubSeq(pipe, n + 1, Len(pipe))
    /\ dpc' = "scan"
    /\ UNCHANGED <<transfers, rclosed, serr, tokens, applied, written, notDec>>

\* s.r.Read returns 0, io.EOF: the pipe is empty and its write end is closed.
DecReadEOF ==
    /\ dpc = "read"
    /\ Weight(buf) < MaxTokenSize
    /\ ~rclosed
    /\ pipe = <<>>
    /\ proc = "exited"
    /\ serr' = "EOF"
    /\ dpc' = "scan"
    /\ UNCHANGED <<transfers, pipe, rclosed, buf, tokens, applied, written, notDec>>

(***************************************************************************)
(* SpecDecoder: parseRcloneOutput(reader, DecId, mgr) on a reader holding  *)
(* any stream of at most MaxStream units, for a transfer Added and Started *)
(* in a Manager that tracks a second transfer.                             *)
(***************************************************************************)
MaxStream == 4

Streams == UNION {[1..n -> Units] : n \in 0..MaxStream}

\* A second transfer, Added and not run.
OtherId == "t2"

InitDecoder ==
    /\ IdleUi
    /\ IdleLock
    /\ IdleLine
    /\ now = 1
    /\ transfers = [i \in {DecId, OtherId} |->
                      IF i = DecId
                      THEN [NewTransfer(DecId, "/src/a", "remote:b")
                               EXCEPT !.Status = StatusInProgress, !.StartTime = 1]
                      ELSE NewTransfer(OtherId, "/src/a", "remote:b")]
    /\ order = <<DecId, OtherId>>
    /\ IdleRace
    /\ IdlePure
    /\ IdleRetry
    /\ pipe \in Streams
    /\ written = pipe
    /\ rclosed = FALSE
    /\ buf = <<>>
    /\ serr = Nil
    /\ dpc = "scan"
    /\ tokens = <<>>
    /\ applied = <<>>
    /\ proc = "exited"
    /\ exitCode = 0
    /\ epc = "idle"
    /\ cmdErr = Nil
    /\ ret = Nil
    /\ cpc = "idle"

NextDecoder ==
    \/ DecScanToken
    \/ DecScanMore
    \/ DecTooLong
    \/ DecReadChunk
    \/ DecReadEOF

SpecDecoder == InitDecoder /\ [][NextDecoder]_vars

\* The reference split: CR, LF and the pair CR LF each end one token; what
\* follows the last terminator is a final token when it is not empty.
RECURSIVE RefSplitFrom(_, _)
RefSplitFrom(stream, cur) ==
    IF stream = <<>> THEN (IF cur = <<>> THEN <<>> ELSE <<cur>>)
    ELSE IF Head(stream) = CR /\ Len(stream) >= 2 /\ stream[2] = LF
         THEN <<cur>> \o RefSplitFrom(SubSeq(stream, 3, Len(stream)), <<>>)
    ELSE IF Head(stream) \in {CR, LF}
         THEN <<cur>> \o RefSplitFrom(Tail(stream), <<>>)
    ELSE RefSplitFrom(Tail(stream), Append(cur, Head(stream)))

RefSplit(stream) == RefSplitFrom(stream, <<>>)

\* The tuples of the matching lines of a sequence of lines, in order.
RECURSIVE RefUpdates(_)
RefUpdates(lines) ==
    IF lines = <<>> THEN <<>>
    ELSE LineUpdate(Head(lines)) \o RefUpdates(Tail(lines))

\* C3: once the decoder has read a stream to its end, the tokens the split
\* function gave are the reference split of the stream, however the stream
\* was cut in chunks: a CR LF pair gives no empty token of its own.
C3_TokensAreReferenceSplit ==
    (dpc = "done" /\ serr = "EOF") => tokens = RefSplit(written)

\* C6: once the decoder has returned, the tuples it wrote to the record are
\* those of the stream's matching lines, in stream order, none dropped.
C6_UpdatesInStreamOrder ==
    dpc = "done" => applied = RefUpdates(RefSplit(written))

(***************************************************************************)
(* SpecExec: the example's main runs manager.Start, executor.Execute and   *)
(* then Complete or Fail.  Execute starts the subprocess and the decoder   *)
(* goroutine, calls cmd.Wait and then receives from done.  The subprocess  *)
(* writes at most MaxWrite units to stderr and exits.  cmd.Wait returns    *)
(* once the subprocess has exited and closes the read end of the pipe it   *)
(* gave out with StderrPipe; a Read after that fails and returns no data.  *)
(* No unit of ExecUnits fills the scanner's buffer, so ErrTooLong does not *)
(* occur here.                                                             *)
(***************************************************************************)
MaxWrite == 3

ExecUnits == {CR, LF, "L10", "L55", "ERR"}

ExitError == "exit status 1"
KilledError == "signal: killed"

\* The exit code of a subprocess ended by os.Process.Kill.
Killed == -1

\* The error cmd.Wait returns for an exit code.
WaitError(code) ==
    IF code = 0 THEN Nil ELSE IF code = Killed THEN KilledError ELSE ExitError
StartError == "failed to start rclone"

\* context.Canceled
CtxCanceled == "context canceled"

\* What cmd.Wait can return for an exit code.  For a subprocess that exited
\* with status 0 while the context was done it depends on os/exec and on
\* timing: the goroutine that watches the context calls Process.Kill, and
\* when the kill succeeds on the process not yet reaped, Wait reports
\* ctx.Err() (Go 1.20 and later); when Wait has reaped it first, or with an
\* older os/exec, Wait returns nil.
WaitErrors(code) ==
    IF code = 0 /\ ctxDone THEN {Nil, CtxCanceled} ELSE {WaitError(code)}

notExec == <<uiVars, lockVars, lineVars, order, now, raceVars, retryVars, pureVars>>

\* main: manager.Start(transferID)
MainStart ==
    /\ cpc = "start"
    /\ Start(DecId)
    /\ cpc' = "execute"
    /\ UNCHANGED <<decVars, proc, exitCode, epc, cmdErr, ret, notExec>>

\* Execute: cmd.StderrPipe() or cmd.Start() fails; Execute returns the error.
ExecStartFails ==
    /\ cpc = "execute"
    /\ epc = "idle"
    /\ ret' = StartError
    /\ epc' = "returned"
    /\ UNCHANGED <<transfers, decVars, proc, exitCode, cmdErr, cpc, notExec>>

\* Execute: cmd.Start() succeeds and the decoder goroutine is started.
ExecStart ==
    /\ cpc = "execute"
    /\ epc = "idle"
    /\ proc' = "running"
    /\ dpc' = "scan"
    /\ epc' = "wait"
    /\ UNCHANGED <<transfers, pipe, rclosed, buf, serr, tokens, applied, written,
                   exitCode, cmdErr, ret, cpc, notExec>>

\* The subprocess writes to its stderr.
ProcWrite ==
    /\ proc = "running"
    /\ Len(written) < MaxWrite
    /\ \E u \in ExecUnits :
          /\ pipe' = Append(pipe, u)
          /\ written' = Append(written, u)
    /\ UNCHANGED <<transfers, rclosed, buf, serr, dpc, tokens, applied, execVars, notExec>>

\* The subprocess exits; the write end of the pipe closes with it.
ProcExit ==
    /\ proc = "running"
    /\ proc' = "exited"
    /\ exitCode' \in {0, 1}
    /\ UNCHANGED <<transfers, decVars, epc, cmdErr, ret, cpc, notExec>>

\* cmdErr := cmd.Wait(): returns after the exit and closes the pipe's read end.
ExecWait ==
    /\ epc = "wait"
    /\ proc = "exited"
    /\ cmdErr' \in WaitErrors(exitCode)
    /\ rclosed' = TRUE
    /\ epc' = "join"
    /\ UNCHANGED <<transfers, pipe, buf, serr, dpc, tokens, applied, written,
                   proc, exitCode, ret, cpc, notExec>>

\* s.r.Read on the closed read end: an error, whatever the pipe still holds.
DecReadClosed ==
    /\ dpc = "read"
    /\ Weight(buf) < MaxTokenSize
    /\ rclosed
    /\ serr' = "closed"
    /\ dpc' = "scan"
    /\ UNCHANGED <<transfers, pipe, rclosed, buf, tokens, applied, written, notDec>>

ExecJoinNoWait ==
    /\ epc = "join"
    /\ ret' = cmdErr
    /\ epc' = "returned"
    /\ UNCHANGED <<transfers, decVars, proc, exitCode, cmdErr, cpc, notExec>>

\* <-done; return cmdErr
ExecJoin ==
    /\ epc = "join"
    /\ dpc = "done"
    /\ ret' = cmdErr
    /\ epc' = "returned"
    /\ UNCHANGED <<transfers, decVars, proc, exitCode, cmdErr, cpc, notExec>>

\* main: if err != nil { manager.Fail(id, err) } else { manager.Complete(id) }
MainFinish ==
    /\ cpc = "execute"
    /\ epc = "returned"
    /\ IF ret # Nil THEN Fail(DecId, ret) ELSE Complete(DecId)
    /\ cpc' = "done"
    /\ UNCHANGED <<decVars, proc, exitCode, epc, cmdErr, ret, notExec>>

\* main after manager.Add(transferID, source, destination).
InitExec ==
    /\ IdleUi
    /\ IdleLock
    /\ IdleLine
    /\ now = 1
    /\ transfers = [i \in {DecId} |-> NewTransfer(DecId, "/src/a", "remote:b")]
    /\ order = <<DecId>>
    /\ IdleRace
    /\ IdlePure
    /\ IdleDec
    /\ IdleRetry
    /\ proc = "none"
    /\ exitCode = 0
    /\ epc = "idle"
    /\ cmdErr = Nil
    /\ ret = Nil
    /\ cpc = "start"

NextExec ==
    \/ MainStart
    \/ ExecStartFails
    \/ ExecStart
    \/ ProcWrite
    \/ ProcExit
    \/ ExecWait
    \/ ExecJoin
    \/ MainFinish
    \/ DecScanToken
    \/ DecScanMore
    \/ DecReadChunk
    \/ DecReadEOF
    \/ DecReadClosed

SpecExec == InitExec /\ [][NextExec]_vars

\* C4: when Execute returns after the subprocess has exited, every matching
\* progress line the subprocess wrote has been applied through UpdateProgress.
C4_NoUpdateLostAtExit ==
    (epc = "returned" /\ proc = "exited") => applied = RefUpdates(RefSplit(written))

\* C5: once Execute has returned its decoder goroutine has finished, so it
\* applies no further update; a record the caller then completes is Completed
\* at 100 percent and a record it fails keeps the last tuple applied.
C5_NoUpdateAfterReturn ==
    /\ epc = "returned" => dpc \in {"idle", "done"}
    /\ (cpc = "done" /\ ret = Nil) =>
          /\ transfers[DecId].Status = StatusCompleted
          /\ transfers[DecId].Progress = 100
    /\ (cpc = "done" /\ ret # Nil) =>
          /\ transfers[DecId].Status = StatusFailed
          /\ transfers[DecId].Progress = (IF applied = <<>> THEN 0 ELSE applied[Len(applied)][1])

\* Execute returned nil after its decoder applied updates, and main completed.
C5_Witness ==
    /\ cpc = "done"
    /\ ret = Nil
    /\ Len(applied) >= 2
    /\ transfers[DecId].Progress = 100

(***************************************************************************)
(* retry.go: ExecuteWithRetry.  Durations are whole milliseconds and the   *)
(* multiplier a whole number, so float64(delay)*Multiplier is exact.       *)
(* Execute is the environment here: each invocation returns nil or an      *)
(* error of its own, and the context may be cancelled at any moment.       *)
(***************************************************************************)
MaxAttemptsIn == 3
MaxDelayIn == 4
MaxMultiplierIn == 2

\* RetryConfig{MaxAttempts: 3, InitialDelay: 10ms, MaxDelay: 100ms, Multiplier: 2.0}
TenMsRetryConfig == [MaxAttempts |-> 3, InitialDelay |-> 10, MaxDelay |-> 100, Multiplier |-> 2]

RetryConfigs ==
    [MaxAttempts : -1..MaxAttemptsIn, InitialDelay : -1..MaxDelayIn,
     MaxDelay : -1..MaxDelayIn, Multiplier : -1..MaxMultiplierIn]
    \cup {TenMsRetryConfig}

MinAttempts == 1
DefaultInitialDelay == 2000
DefaultMaxDelay == 30000
DefaultMultiplier == 2

\* The four "if retryCfg.X <= 0" assignments at the head of ExecuteWithRetry.
WithDefaults(cfg) ==
    [MaxAttempts  |-> IF cfg.MaxAttempts <= 0 THEN MinAttempts ELSE cfg.MaxAttempts,
     InitialDelay |-> IF cfg.InitialDelay <= 0 THEN DefaultInitialDelay ELSE cfg.InitialDelay,
     MaxDelay     |-> IF cfg.MaxDelay <= 0 THEN DefaultMaxDelay ELSE cfg.MaxDelay,
     Multiplier   |-> IF cfg.Multiplier <= 0 THEN DefaultMultiplier ELSE cfg.Multiplier]

Min(a, b) == IF a <= b THEN a ELSE b

\* The delay grown with no cap.
NextDelayUncapped(d, cfg) == d * cfg.Multiplier

\* time.Duration(math.Min(float64(delay)*retryCfg.Multiplier, float64(retryCfg.MaxDelay)))
NextDelay(d, cfg) == Min(d * cfg.Multiplier, cfg.MaxDelay)

IsLastAttemptNever(a, cfg) == FALSE

\* if attempt == retryCfg.MaxAttempts { break }
IsLastAttempt(a, cfg) == a = cfg.MaxAttempts

\* The error Execute returns on attempt k.
ErrOfAttempt(k) == [kind |-> "exec", attempt |-> k]

\* fmt.Errorf("failed after %d attempts: %w", n, e)
FailedAfter(n, e) == [kind |-> "failed", n |-> n, wraps |-> e]

\* fmt.Errorf("context cancelled after %d attempts: %w", n, e)
CancelledAfter(n, e) == [kind |-> "cancelled", n |-> n, wraps |-> e]

\* ctx.Err()
CtxErr == [kind |-> "ctx"]

notRetry == <<uiVars, lockVars, lineVars, storeVars, raceVars, decVars, execVars, pureVars>>

\* The defaults, then: var lastErr error; delay := InitialDelay; attempt := 1
RetryEntry ==
    /\ rpc = "entry"
    /\ retryCfg' = WithDefaults(inCfg)
    /\ delay' = WithDefaults(inCfg).InitialDelay
    /\ attempt' = 1
    /\ lastErr' = RNil
    /\ rpc' = "check"
    /\ UNCHANGED <<inCfg, rret, ctxDone, calls, waits, firstOk, cancelAt, notRetry>>

RetryCheckCtxNoSelect ==
    /\ rpc = "check"
    /\ IF attempt > retryCfg.MaxAttempts
       THEN /\ rret' = FailedAfter(retryCfg.MaxAttempts, lastErr)
            /\ rpc' = "done"
       ELSE /\ rpc' = "exec"
            /\ UNCHANGED rret
    /\ UNCHANGED <<inCfg, retryCfg, attempt, delay, lastErr, ctxDone, calls, waits,
                   firstOk, cancelAt, notRetry>>

\* RetryCheckCtx naming the attempt it is about to make as one made.
RetryCheckCtxMiscount ==
    /\ rpc = "check"
    /\ IF attempt > retryCfg.MaxAttempts
       THEN /\ rret' = FailedAfter(retryCfg.MaxAttempts, lastErr)
            /\ rpc' = "done"
       ELSE IF ctxDone
       THEN /\ rret' = IF lastErr # RNil THEN CancelledAfter(attempt, lastErr) ELSE CtxErr
            /\ rpc' = "done"
       ELSE /\ rpc' = "exec"
            /\ UNCHANGED rret
    /\ UNCHANGED <<inCfg, retryCfg, attempt, delay, lastErr, ctxDone, calls, waits,
                   firstOk, cancelAt, notRetry>>

\* The loop condition, then the select on ctx.Done() with a default case.
RetryCheckCtx ==
    /\ rpc = "check"
    /\ IF attempt > retryCfg.MaxAttempts
       THEN /\ rret' = FailedAfter(retryCfg.MaxAttempts, lastErr)
            /\ rpc' = "done"
       ELSE IF ctxDone
       THEN /\ rret' = IF lastErr # RNil THEN CancelledAfter(attempt - 1, lastErr) ELSE CtxErr
            /\ rpc' = "done"
       ELSE /\ rpc' = "exec"
            /\ UNCHANGED rret
    /\ UNCHANGED <<inCfg, retryCfg, attempt, delay, lastErr, ctxDone, calls, waits,
                   firstOk, cancelAt, notRetry>>

RetryExecuteOkNoReturn ==
    /\ rpc = "exec"
    /\ calls' = calls + 1
    /\ firstOk' = IF firstOk = 0 THEN attempt ELSE firstOk
    /\ rpc' = "backoff"
    /\ UNCHANGED <<inCfg, retryCfg, attempt, delay, lastErr, rret, ctxDone, waits, cancelAt, notRetry>>

\* err := e.Execute(transferID, opts) returns nil: return nil
RetryExecuteOk ==
    /\ rpc = "exec"
    /\ calls' = calls + 1
    /\ firstOk' = IF firstOk = 0 THEN attempt ELSE firstOk
    /\ rret' = RNil
    /\ rpc' = "done"
    /\ UNCHANGED <<inCfg, retryCfg, attempt, delay, lastErr, ctxDone, waits, cancelAt, notRetry>>

\* err := e.Execute(transferID, opts) returns an error: lastErr = err, and
\* the loop is left after the last attempt.
RetryExecuteFails ==
    /\ rpc = "exec"
    /\ calls' = calls + 1
    /\ lastErr' = ErrOfAttempt(attempt)
    /\ IF IsLastAttempt(attempt, retryCfg)
       THEN /\ rret' = FailedAfter(retryCfg.MaxAttempts, ErrOfAttempt(attempt))
            /\ rpc' = "done"
       ELSE /\ rpc' = "backoff"
            /\ UNCHANGED rret
    /\ UNCHANGED <<inCfg, retryCfg, attempt, delay, ctxDone, waits, firstOk, cancelAt, notRetry>>

\* case <-time.After(delay): the wait is over; delay grows; attempt++
RetryBackoffElapsed ==
    /\ rpc = "backoff"
    /\ waits' = Append(waits, delay)
    /\ delay' = NextDelay(delay, retryCfg)
    /\ attempt' = attempt + 1
    /\ rpc' = "check"
    /\ UNCHANGED <<inCfg, retryCfg, lastErr, rret, ctxDone, calls, firstOk, cancelAt, notRetry>>

RetryBackoffCancelledBare ==
    /\ rpc = "backoff"
    /\ ctxDone
    /\ rret' = CtxErr
    /\ rpc' = "done"
    /\ UNCHANGED <<inCfg, retryCfg, attempt, delay, lastErr, ctxDone, calls, waits,
                   firstOk, cancelAt, notRetry>>

\* case <-ctx.Done() during the backoff wait
RetryBackoffCancelled ==
    /\ rpc = "backoff"
    /\ ctxDone
    /\ rret' = CancelledAfter(attempt, lastErr)
    /\ rpc' = "done"
    /\ UNCHANGED <<inCfg, retryCfg, attempt, delay, lastErr, ctxDone, calls, waits,
                   firstOk, cancelAt, notRetry>>

\* The caller's context is cancelled while ExecuteWithRetry runs.
CtxCancel ==
    /\ rpc \in {"entry", "check", "exec", "backoff"}
    /\ ~ctxDone
    /\ ctxDone' = TRUE
    /\ cancelAt' = [pc |-> rpc, attempt |-> attempt]
    /\ UNCHANGED <<inCfg, retryCfg, attempt, delay, lastErr, rpc, rret, calls, waits,
                   firstOk, notRetry>>

InitRetry ==
    /\ IdleUi
    /\ IdleLock
    /\ IdleLine
    /\ NewManager
    /\ now = 1
    /\ IdleRace
    /\ IdlePure
    /\ IdleDec
    /\ IdleExec
    /\ inCfg \in RetryConfigs
    /\ retryCfg = inCfg
    /\ attempt = 0
    /\ delay = 0
    /\ lastErr = RNil
    /\ rpc = "entry"
    /\ rret = RNil
    /\ ctxDone = FALSE
    /\ calls = 0
    /\ waits = <<>>
    /\ firstOk = 0
    /\ cancelAt = NotCancelled

NextRetry ==
    \/ RetryEntry
    \/ RetryCheckCtx
    \/ RetryExecuteOk
    \/ RetryExecuteFails
    \/ RetryBackoffElapsed
    \/ RetryBackoffCancelled
    \/ CtxCancel

SpecRetry == InitRetry /\ [][NextRetry]_vars

\* ExecuteWithRetry has returned an error and the context was never cancelled:
\* every attempt failed.
ExhaustedNoCancel ==
    /\ rpc = "done"
    /\ ~ctxDone
    /\ rret # RNil

\* C7: with MaxAttempts N >= 1, no cancellation and every attempt failing,
\* Execute is invoked exactly N times, exactly N-1 backoff waits are made,
\* and the error is "failed after N attempts" wrapping the last failure.
C7_RetryExhaustion ==
    (ExhaustedNoCancel /\ inCfg.MaxAttempts >= 1) =>
        /\ calls = inCfg.MaxAttempts
        /\ Len(waits) = inCfg.MaxAttempts - 1
        /\ rret = FailedAfter(inCfg.MaxAttempts, ErrOfAttempt(inCfg.MaxAttempts))

\* Three attempts failed, two waits were made, and the error names 3.
C7_Witness ==
    /\ ExhaustedNoCancel
    /\ inCfg.MaxAttempts = 3
    /\ calls = 3
    /\ Len(waits) = 2
    /\ rret.kind = "failed"

\* C8: when attempt k is the first whose Execute returns nil, ExecuteWithRetry
\* has returned nil at once: Execute was invoked k times, k-1 waits were made,
\* and nothing follows.
C8_StopsAtFirstSuccess ==
    firstOk > 0 =>
        /\ rpc = "done"
        /\ rret = RNil
        /\ firstOk <= retryCfg.MaxAttempts
        /\ calls = firstOk
        /\ Len(waits) = firstOk - 1

\* The second attempt succeeded after one failure and one wait.
C8_Witness ==
    /\ firstOk = 2
    /\ rpc = "done"
    /\ calls = 2
    /\ lastErr = ErrOfAttempt(1)

\* C9: with MaxAttempts left at zero, an always-failing transfer is attempted
\* exactly 3 times, the documented default.
C9_DefaultAttemptsIsThree ==
    (ExhaustedNoCancel /\ inCfg.MaxAttempts = 0) => calls = 3

\* C10: with every field of the configuration set (positive), every backoff
\* wait is at most MaxDelay.
C10_BackoffCapped ==
    (/\ inCfg.MaxAttempts > 0
     /\ inCfg.InitialDelay > 0
     /\ inCfg.MaxDelay > 0
     /\ inCfg.Multiplier > 0) =>
        \A i \in 1..Len(waits) : waits[i] <= inCfg.MaxDelay

\* C11: when the context is cancelled during the backoff wait that follows
\* failed attempt k, the return is open at once (the select does not need the
\* timer), attempt k+1 is never started, and the error returned is the
\* "context cancelled after k attempts" error wrapping the failure of attempt k.
C11_CancelDuringBackoff ==
    cancelAt.pc = "backoff" =>
        /\ rpc \in {"backoff", "check", "done"}
        /\ calls = cancelAt.attempt
        /\ rpc = "backoff" => ENABLED RetryBackoffCancelled
        /\ rpc = "done" =>
              rret = CancelledAfter(cancelAt.attempt, ErrOfAttempt(cancelAt.attempt))

\* Cancelled in the wait after the second failure: two calls, one full wait.
C11_Witness ==
    /\ cancelAt = [pc |-> "backoff", attempt |-> 2]
    /\ rpc = "done"
    /\ rret = CancelledAfter(2, ErrOfAttempt(2))
    /\ calls = 2
    /\ Len(waits) = 1

\* C12: when the pre-attempt check of attempt k finds the context cancelled,
\* attempt k is not run: ExecuteWithRetry returns with Execute not invoked
\* again; for k = 1 the error is ctx.Err() and Execute was never invoked, for
\* k > 1 it is the cancellation error wrapping the failure of attempt k-1.
C12_CancelBeforeAttempt ==
    [][(rpc = "check" /\ ctxDone /\ rpc' # rpc) =>
          /\ rpc' = "done"
          /\ calls' = calls
          /\ calls = attempt - 1
          /\ rret' = IF attempt = 1 THEN CtxErr
                     ELSE CancelledAfter(attempt - 1, ErrOfAttempt(attempt - 1))]_vars

\* The check before attempt 2 found the context cancelled.
C12_Witness ==
    /\ cancelAt = [pc |-> "check", attempt |-> 2]
    /\ rpc = "done"
    /\ calls = 1
    /\ rret = CancelledAfter(1, ErrOfAttempt(1))

\* C13: an error returned after the context was cancelled is a cancellation
\* error, never the "failed after N attempts" error, wherever the
\* cancellation fell, the last permitted attempt included.
C13_CancellationNotConflated ==
    (rpc = "done" /\ ctxDone /\ rret # RNil) => rret.kind \in {"cancelled", "ctx"}

(***************************************************************************)
(* errors.go: ClassifyError.  An error value is its chain, outermost       *)
(* first: wrapErrors made by fmt.Errorf("...%w", err), each holding the    *)
(* text in front of the wrapped error, and at the end an error that wraps  *)
(* nothing: a *ValidationError or any other error (an errors.errorString,  *)
(* an *exec.ExitError, ...), which is just its text.                       *)
(***************************************************************************)
ErrorTypeNetwork == "network"
ErrorTypeTimeout == "timeout"
ErrorTypeAuth == "auth"
ErrorTypeNotFound == "not_found"
ErrorTypeFileSystem == "filesystem"
ErrorTypeInvalidInput == "invalid_input"
ErrorTypeInsufficientSpace == "insufficient_space"
ErrorTypeUnknown == "unknown"

\* errors.New(text), or any error that wraps nothing and is no ValidationError.
PlainError(text) == <<[type |-> "error", field |-> "", msg |-> text]>>

\* &ValidationError{Field: field, Message: message}
ValidationError(field, message) ==
    <<[type |-> "ValidationError", field |-> field, msg |-> message]>>

\* fmt.Errorf(prefix + "%w", err)
WrapError(prefix, err) == <<[type |-> "wrapError", field |-> "", msg |-> prefix]>> \o err

\* err.Error()
RECURSIVE ErrorText(_)
ErrorText(err) ==
    CASE Head(err).type = "wrapError" -> Head(err).msg \o ErrorText(Tail(err))
      [] Head(err).type = "ValidationError" -> Head(err).field \o ": " \o Head(err).msg
      [] OTHER -> Head(err).msg

ErrorsAsValidationTopOnly(err) == Head(err).type = "ValidationError"

\* errors.As(err, &valErr): some error of the chain is a *ValidationError.
RECURSIVE ErrorsAsValidation(_)
ErrorsAsValidation(err) ==
    CASE Head(err).type = "ValidationError" -> TRUE
      [] Head(err).type = "wrapError" -> ErrorsAsValidation(Tail(err))
      [] OTHER -> FALSE

ToLowerChar(c) ==
    CASE c = "A" -> "a"
      [] c = "B" -> "b"
      [] c = "C" -> "c"
      [] c = "D" -> "d"
      [] c = "E" -> "e"
      [] c = "F" -> "f"
      [] c = "G" -> "g"
      [] c = "H" -> "h"
      [] c = "I" -> "i"
      [] c = "J" -> "j"
      [] c = "K" -> "k"
      [] c = "L" -> "l"
      [] c = "M" -> "m"
      [] c = "N" -> "n"
      [] c = "O" -> "o"
      [] c = "P" -> "p"
      [] c = "Q" -> "q"
      [] c = "R" -> "r"
      [] c = "S" -> "s"
      [] c = "T" -> "t"
      [] c = "U" -> "u"
      [] c = "V" -> "v"
      [] c = "W" -> "w"
      [] c = "X" -> "x"
      [] c = "Y" -> "y"
      [] c = "Z" -> "z"
      [] OTHER -> c

\* strings.ToLower
RECURSIVE ToLower(_)
ToLower(str) ==
    IF Len(str) = 0 THEN ""
    ELSE ToLowerChar(SubSeq(str, 1, 1)) \o ToLower(SubSeq(str, 2, Len(str)))

\* strings.Contains
Contains(str, substr) ==
    \E i \in 1..(Len(str) - Len(substr) + 1) : SubSeq(str, i, i + Len(substr) - 1) = substr

\* &ClassifiedError{Type: type, Err: err, Retryable: retryable, Temporary: temporary}
ClassifiedError(type, err, retryable, temporary) ==
    [Type |-> type, Err |-> err, Retryable |-> retryable, Temporary |-> temporary]

ClassifyTextAuthFirst(errStr, err) ==
    IF \/ Contains(errStr, "auth")
       \/ Contains(errStr, "unauthorized")
       \/ Contains(errStr, "forbidden")
       \/ Contains(errStr, "permission denied")
       \/ Contains(errStr, "access denied")
    THEN ClassifiedError(ErrorTypeAuth, err, FALSE, FALSE)
    ELSE IF \/ Contains(errStr, "network")
            \/ Contains(errStr, "connection")
            \/ Contains(errStr, "dial")
            \/ Contains(errStr, "no route to host")
            \/ Contains(errStr, "host is down")
    THEN ClassifiedError(ErrorTypeNetwork, err, TRUE, TRUE)
    ELSE ClassifiedError(ErrorTypeUnknown, err, TRUE, FALSE)

\* The keyword tests of ClassifyError, in the order of the code.
ClassifyText(errStr, err) ==
    IF \/ Contains(errStr, "network")
       \/ Contains(errStr, "connection")
       \/ Contains(errStr, "dial")
       \/ Contains(errStr, "no route to host")
       \/ Contains(errStr, "host is down")
    THEN ClassifiedError(ErrorTypeNetwork, err, TRUE, TRUE)
    ELSE IF \/ Contains(errStr, "timeout")
            \/ Contains(errStr, "deadline exceeded")
            \/ Contains(errStr, "i/o timeout")
    THEN ClassifiedError(ErrorTypeTimeout, err, TRUE, TRUE)
    ELSE IF \/ Contains(errStr, "auth")
            \/ Contains(errStr, "unauthorized")
            \/ Contains(errStr, "forbidden")
            \/ Contains(errStr, "permission denied")
            \/ Contains(errStr, "access denied")
    THEN ClassifiedError(ErrorTypeAuth, err, FALSE, FALSE)
    ELSE IF \/ Contains(errStr, "not found")
            \/ Contains(errStr, "no such file")
            \/ Contains(errStr, "does not exist")
            \/ Contains(errStr, "404")
    THEN ClassifiedError(ErrorTypeNotFound, err, FALSE, FALSE)
    ELSE IF \/ Contains(errStr, "no space left")
            \/ Contains(errStr, "insufficient space")
            \/ Contains(errStr, "disk full")
            \/ Contains(errStr, "quota exceeded")
    THEN ClassifiedError(ErrorTypeInsufficientSpace, err, FALSE, FALSE)
    ELSE IF \/ Contains(errStr, "filesystem")
            \/ Contains(errStr, "i/o error")
            \/ Contains(errStr, "read-only")
    THEN ClassifiedError(ErrorTypeFileSystem, err, FALSE, FALSE)
    ELSE ClassifiedError(ErrorTypeUnknown, err, TRUE, FALSE)

\* ClassifyError(err) for err != nil.
ClassifyError(err) ==
    IF ErrorsAsValidation(err)
    THEN ClassifiedError(ErrorTypeInvalidInput, err, FALSE, FALSE)
    ELSE ClassifyText(ToLower(ErrorText(err)), err)

(***************************************************************************)
(* SpecClassify: ClassifyError on any error of ClsErrors: an error text of *)
(* the subprocess or of the library, or a ValidationError of a pre-flight  *)
(* check, inside at most MaxWrap wrappers.                                 *)
(***************************************************************************)
MaxWrap == 1

ClsTexts ==
    {"exit status 1", "signal: killed", "",
     "Network is unreachable", "connection refused", "dial tcp: i/o timeout",
     "No Route To Host", "host is down",
     "read tcp: i/o timeout", "context deadline exceeded", "auth timeout",
     "401 Unauthorized", "403 Forbidden", "permission denied", "Access Denied",
     "network error: authentication failed",
     "connection reset: permission denied",
     "directory not found", "no such file or directory", "object does not exist",
     "HTTP 404", "directory not found: permission denied",
     "no space left on device", "insufficient space", "Disk Full", "quota exceeded",
     "disk full: file does not exist",
     "read-only file system", "i/o error", "filesystem corrupted",
     "read-only: quota exceeded"}

ClsValidationErrors ==
    {ValidationError("source", "source path cannot be empty"),
     ValidationError("source", "path does not exist: /src/a"),
     ValidationError("remote", "timeout validating remote"),
     ValidationError("destination", "connection refused")}

ClsPrefixes ==
    {"failed after 3 attempts: ", "context cancelled after 1 attempts: ",
     "failed to start rclone: "}

RECURSIVE ClsWrapped(_)
ClsWrapped(n) ==
    IF n = 0 THEN {PlainError(t) : t \in ClsTexts} \cup ClsValidationErrors
    ELSE ClsWrapped(n - 1) \cup
         {WrapError(p, e) : p \in ClsPrefixes, e \in ClsWrapped(n - 1)}

ClsErrors == ClsWrapped(MaxWrap)

notClassify == <<uiVars, lockVars, lineVars, pfIn, arch, storeVars, raceVars, decVars, execVars, retryVars,
                 psValue, psUnit, psRes, psPc, argOpts, argVec, argPc>>

\* classified := ClassifyError(err)
ClsCall ==
    /\ clsPc = "call"
    /\ clsRes' = ClassifyError(clsErr)
    /\ clsPc' = "done"
    /\ UNCHANGED <<clsErr, notClassify>>

InitClassify ==
    /\ IdleUi
    /\ IdleLock
    /\ IdleLine
    /\ NewManager
    /\ now = 1
    /\ IdleRace
    /\ IdleDec
    /\ IdleExec
    /\ IdleRetry
    /\ clsErr \in ClsErrors
    /\ clsRes = <<>>
    /\ clsPc = "call"
    /\ psValue = <<>>
    /\ psUnit = <<>>
    /\ psRes = <<>>
    /\ psPc = "idle"
    /\ argOpts = <<>>
    /\ argVec = <<>>
    /\ argPc = "idle"
    /\ pfIn = <<>>
    /\ arch = "amd64"

NextClassify == ClsCall

SpecClassify == InitClassify /\ [][NextClassify]_vars

\* The keyword groups in their priority order, and the tag of each.
KeywordGroups ==
    << [tag |-> ErrorTypeNetwork,
        words |-> {"network", "connection", "dial", "no route to host", "host is down"}],
       [tag |-> ErrorTypeTimeout,
        words |-> {"timeout", "deadline exceeded", "i/o timeout"}],
       [tag |-> ErrorTypeAuth,
        words |-> {"auth", "unauthorized", "forbidden", "permission denied", "access denied"}],
       [tag |-> ErrorTypeNotFound,
        words |-> {"not found", "no such file", "does not exist", "404"}],
       [tag |-> ErrorTypeInsufficientSpace,
        words |-> {"no space left", "insufficient space", "disk full", "quota exceeded"}],
       [tag |-> ErrorTypeFileSystem,
        words |-> {"filesystem", "i/o error", "read-only"}] >>

HasGroup(text, g) == \E w \in KeywordGroups[g].words : Contains(text, w)

\* The tag of the first group with a keyword in the text, Unknown if none.
FirstMatch(text) ==
    IF \E g \in 1..Len(KeywordGroups) : HasGroup(text, g)
    THEN KeywordGroups[CHOOSE g \in 1..Len(KeywordGroups) :
                          /\ HasGroup(text, g)
                          /\ \A h \in 1..(g - 1) : ~HasGroup(text, h)].tag
    ELSE ErrorTypeUnknown

\* C14: for an error that is no validation error ClassifyError returns the
\* tag of the first keyword group found in the lower-cased text, in the order
\* Network, Timeout, Auth, NotFound, InsufficientSpace, FileSystem, and
\* Unknown when there is none; Retryable is true exactly for Network, Timeout
\* and Unknown, Temporary exactly for Network and Timeout; a text with a
\* network keyword and an auth keyword is Network.
C14_FirstMatchClassifier ==
    (clsPc = "done" /\ ~ErrorsAsValidation(clsErr)) =>
        LET text == ToLower(ErrorText(clsErr)) IN
        /\ clsRes.Type = FirstMatch(text)
        /\ clsRes.Err = clsErr
        /\ clsRes.Retryable <=>
              clsRes.Type \in {ErrorTypeNetwork, ErrorTypeTimeout, ErrorTypeUnknown}
        /\ clsRes.Temporary <=> clsRes.Type \in {ErrorTypeNetwork, ErrorTypeTimeout}
        /\ clsRes.Temporary => clsRes.Retryable
        /\ (HasGroup(text, 1) /\ HasGroup(text, 3)) => clsRes.Type = ErrorTypeNetwork

\* A text with a network keyword and an auth keyword was classified Network.
C14_Witness ==
    /\ clsPc = "done"
    /\ clsErr = PlainError("network error: authentication failed")
    /\ clsRes.Type = ErrorTypeNetwork
    /\ clsRes.Retryable
    /\ clsRes.Temporary

\* C15: an error that is a ValidationError, or wraps one anywhere in its
\* chain, is InvalidInput, not retryable and not temporary, whatever keywords
\* its text contains.
C15_ValidationFirst ==
    (clsPc = "done" /\ \E i \in 1..Len(clsErr) : clsErr[i].type = "ValidationError") =>
        /\ clsRes.Type = ErrorTypeInvalidInput
        /\ ~clsRes.Retryable
        /\ ~clsRes.Temporary

\* A ValidationError with a timeout keyword inside the retry wrapper.
C15_Witness ==
    /\ clsPc = "done"
    /\ clsErr = WrapError("failed after 3 attempts: ",
                          ValidationError("remote", "timeout validating remote"))
    /\ clsRes.Type = ErrorTypeInvalidInput

\* C16: when the subprocess wrote a diagnostic line to stderr and exited with
\* a non-zero code, the error Execute returns carries that text, so that
\* ClassifyError does not fall through to Unknown.
C16_FailureDetailReachesClassifier ==
    (/\ epc = "returned"
     /\ proc = "exited"
     /\ exitCode # 0
     /\ \E i \in 1..Len(written) : written[i] = "ERR") =>
        /\ Contains(ErrorText(PlainError(ret)), DiagText)
        /\ ClassifyError(PlainError(ret)).Type = ErrorTypeAuth

\* C17: Execute returns nil exactly when the subprocess was started and
\* exited with code 0, otherwise the subprocess's own exit error, as cmd.Wait
\* makes it from the exit code; when the subprocess could not be started it
\* returns an error, no decoder has run and no update was applied.  Stated
\* for every context, one cancelled during the run included.
C17_ResultMirrorsSubprocess ==
    epc = "returned" =>
        /\ ret = Nil <=> (proc = "exited" /\ exitCode = 0)
        /\ proc = "exited" => ret = cmdErr
        /\ proc = "exited" => ret = WaitError(exitCode)
        /\ proc = "none" =>
              /\ ret = StartError
              /\ dpc = "idle"
              /\ tokens = <<>>
              /\ applied = <<>>
              /\ transfers[DecId].Progress = 0

\* The tuple each progress text stands for: its percentage, and its two
\* sizes in bytes with 1024-based units.
ExpectedTuple(u) ==
    CASE u = "L10" -> <<10, 1024, 10240>>
      [] u = "L55" -> <<55, 5632, 10240>>
      [] u = "L90" -> <<90, 9216, 10240>>
      [] u = "L50" -> <<50, 512 * 1024 * 1024, 1024 * 1024 * 1024>>
      [] u = "L150" -> <<150, 15360, 10240>>

\* One tuple for every token that holds a progress text, that of its first.
RECURSIVE ExpectedTuples(_)
ExpectedTuples(lines) ==
    IF lines = <<>> THEN <<>>
    ELSE LET texts == SelectSeq(Head(lines), IsProgressText)
         IN (IF texts = <<>> THEN <<>> ELSE <<ExpectedTuple(texts[1])>>)
            \o ExpectedTuples(Tail(lines))

\* C19: for every matched line the decoder has called UpdateProgress once,
\* on the id it was started with, with the line's percentage and its two
\* sizes in bytes; the record holds the last tuple, its other fields and the
\* other record are as they were.  The line with 512.0 MiB / 1.0 GiB, 50%
\* leaves 50, 512*1024*1024 and 1024^3.
C19_OneUpdatePerMatchedLine ==
    /\ applied = ExpectedTuples(tokens)
    /\ DOMAIN transfers = {DecId, OtherId}
    /\ transfers[OtherId] = NewTransfer(OtherId, "/src/a", "remote:b")
    /\ LET last == IF applied = <<>> THEN <<0, 0, 0>> ELSE applied[Len(applied)]
       IN transfers[DecId] =
             [NewTransfer(DecId, "/src/a", "remote:b")
                 EXCEPT !.Status = StatusInProgress, !.StartTime = 1,
                        !.Progress = last[1], !.BytesCopied = last[2], !.BytesTotal = last[3]]

\* The stream ended with the 512.0 MiB / 1.0 GiB, 50% line.
C19_Witness ==
    /\ dpc = "done"
    /\ Len(tokens) >= 2
    /\ tokens[Len(tokens)] = <<"L50">>
    /\ transfers[DecId].Progress = 50
    /\ transfers[DecId].BytesCopied = 536870912
    /\ transfers[DecId].BytesTotal = 1073741824

(***************************************************************************)
(* SpecParseSize: parseSize on any value text of PsValues and any unit of  *)
(* PsUnits: a letter of K, M, G, T, P in either case, then i or nothing,   *)
(* then B or b or nothing; and the units B, b, the empty one, and a unit   *)
(* with spaces around it.                                                  *)
(***************************************************************************)
PsValues ==
    {<<"1", ".", "5">>, <<"1">>, <<"0">>, <<"1", "0">>, <<"0", ".", "5">>,
     <<"2", ".", "2", "5">>, <<"5", "1", "2", ".", "0">>,
     <<"1", ".", "2", ".", "3">>, <<".">>, <<>>, <<"1", ",", "5">>,
     <<"0", ".", "5", "4">>, <<"9", ".", "9">>, <<"1", "2", "8", ".", "0", "6", "7">>,
     <<"9", "9", "9", "9">>}

\* The value texts of PsValues that are binary fractions: float64 holds them
\* exactly.
PsExact ==
    {<<"1", ".", "5">>, <<"1">>, <<"0">>, <<"1", "0">>, <<"0", ".", "5">>,
     <<"2", ".", "2", "5">>, <<"5", "1", "2", ".", "0">>, <<"9", "9", "9", "9">>}

PsUnits ==
    {<<l>> \o i \o b : l \in {"K", "M", "G", "T", "P", "k", "m", "g", "t", "p"},
                       i \in {<<>>, <<"i">>, <<"I">>},
                       b \in {<<>>, <<"B">>, <<"b">>}}
    \cup {<<"B">>, <<"b">>, <<>>, <<" ", "K", "i", "B", " ">>}

notParseSize == <<uiVars, lockVars, lineVars, pfIn, arch, storeVars, raceVars, decVars, execVars, retryVars, clsErr, clsRes, clsPc,
                  argOpts, argVec, argPc>>

\* bytes := parseSize(value, unit)
PsCall ==
    /\ psPc = "call"
    /\ psRes' = parseSize(psValue, psUnit)
    /\ psPc' = "done"
    /\ UNCHANGED <<psValue, psUnit, notParseSize>>

InitParseSize ==
    /\ IdleUi
    /\ IdleLock
    /\ IdleLine
    /\ NewManager
    /\ now = 1
    /\ IdleRace
    /\ IdleDec
    /\ IdleExec
    /\ IdleRetry
    /\ clsErr = <<>>
    /\ clsRes = <<>>
    /\ clsPc = "idle"
    /\ psValue \in PsValues
    /\ psUnit \in PsUnits
    /\ psRes = <<>>
    /\ psPc = "call"
    /\ argOpts = <<>>
    /\ argVec = <<>>
    /\ argPc = "idle"
    /\ pfIn = <<>>
    /\ arch \in Archs

NextParseSize == PsCall

SpecParseSize == InitParseSize /\ [][NextParseSize]_vars

\* The binary order of a unit: that of its letter, 0 for B and for no unit.
BinaryOrder(unit) ==
    LET u == SelectSeq(unit, LAMBDA c : c # " ") IN
    IF u = <<>> THEN 0
    ELSE CASE u[1] \in {"K", "k"} -> 1
           [] u[1] \in {"M", "m"} -> 2
           [] u[1] \in {"G", "g"} -> 3
           [] u[1] \in {"T", "t"} -> 4
           [] u[1] \in {"P", "p"} -> 5
           [] OTHER -> 0

\* a * 1024^n
RECURSIVE Times1024(_, _)
Times1024(a, n) == IF n = 0 \/ a = <<>> THEN a ELSE Times1024(<<0>> \o a, n - 1)

\* C20: for every value that is a number, parseSize(value, unit) is the
\* whole bytes of value times 1024^n, n = 1..5 for the letters K, M, G, T, P
\* in either case with or without i and B or b, n = 0 for B and for no unit,
\* so KB, KiB and K agree and no multiple is 1000-based; a value that is no
\* number gives 0.  The value is the float64 the text reads as; for a text
\* that is a binary fraction the result is the whole bytes of the decimal
\* itself.
C20_UnitAwareSizes ==
    psPc = "done" =>
        LET val == ParseFloat(psValue)
            bytes == ShiftRight(Times1024(val.sig, BinaryOrder(psUnit)), val.shift)
        IN
        /\ val.ok => psRes = bytes
        /\ val.ok /\ psValue \in PsExact =>
              psRes = Div(Times1024(Int64(val.mant), BinaryOrder(psUnit)), Pow10(val.scale))
        /\ ~val.ok => psRes = Int64(0)
        /\ psValue \in {<<"1", ".", "2", ".", "3">>, <<".">>, <<>>, <<"1", ",", "5">>}
              => psRes = Int64(0)
        /\ psValue = <<"0", ".", "5", "4">> /\ psUnit = <<"P", "i", "B">>
              => psRes = <<41, 983, 40, 983, 552>>

\* C21: in every state every record's percentage lies in [0, 100], whatever
\* lines the decoder has read.
C21_PercentageInRange ==
    \A id \in DOMAIN transfers :
        /\ transfers[id].Progress >= 0
        /\ transfers[id].Progress <= 100

\* C22: GetAll returns every tracked transfer exactly once, in the order in
\* which the ids were first added, and as many records as there are distinct
\* ids, also after Add of an id that is already tracked.
C22_InsertionOrderIteration ==
    /\ Len(GetAll) = Cardinality(DOMAIN transfers)
    /\ \A id \in DOMAIN transfers :
          Cardinality({j \in 1..Len(GetAll) : GetAll[j].ID = id}) = 1
    /\ \A j, k \in 1..Len(GetAll) :
          j < k =>
             (CHOOSE a \in 1..Len(order) :
                 order[a] = GetAll[j].ID /\ \A b \in 1..(a - 1) : order[b] # GetAll[j].ID)
             <=
             (CHOOSE a \in 1..Len(order) :
                 order[a] = GetAll[k].ID /\ \A b \in 1..(a - 1) : order[b] # GetAll[k].ID)

\* C23: after Add(id, ...) the record of id is Pending with percentage 0,
\* zero byte counts, no start or end time and no failure detail, whatever
\* record id had before; no other record is touched.
C23_AddNeverMerges ==
    [][\A id \in Ids :
          order' = Append(order, id) =>
              /\ id \in DOMAIN transfers'
              /\ transfers'[id].ID = id
              /\ transfers'[id].Status = StatusPending
              /\ transfers'[id].Progress = 0
              /\ transfers'[id].BytesCopied = 0
              /\ transfers'[id].BytesTotal = 0
              /\ transfers'[id].StartTime = 0
              /\ transfers'[id].EndTime = 0
              /\ transfers'[id].Error = Nil
              /\ \A i \in DOMAIN transfers : i # id => transfers'[i] = transfers[i]]_vars

\* t1 was added a second time: its record is a new Pending one.
C23_Witness ==
    /\ Len(order) = 2
    /\ order[1] = "t1"
    /\ order[2] = "t1"
    /\ transfers["t1"] = NewTransfer("t1", "/src/a", "remote:b")
    /\ now = 2

\* C24: Stats gives, for each status, the number of tracked ids whose record
\* has that status; the four counts sum to the number of tracked ids; and
\* they are the counts of the statuses of the records GetAll returns.
C24_StatsConsistent ==
    /\ Stats.pending =
          Cardinality({i \in DOMAIN transfers : transfers[i].Status = StatusPending})
    /\ Stats.inProgress =
          Cardinality({i \in DOMAIN transfers : transfers[i].Status = StatusInProgress})
    /\ Stats.completed =
          Cardinality({i \in DOMAIN transfers : transfers[i].Status = StatusCompleted})
    /\ Stats.failed =
          Cardinality({i \in DOMAIN transfers : transfers[i].Status = StatusFailed})
    /\ Stats.pending + Stats.inProgress + Stats.completed + Stats.failed
          = Cardinality(DOMAIN transfers)
    /\ Stats.pending = Len(SelectSeq(GetAll, LAMBDA t : t.Status = StatusPending))
    /\ Stats.inProgress = Len(SelectSeq(GetAll, LAMBDA t : t.Status = StatusInProgress))
    /\ Stats.completed = Len(SelectSeq(GetAll, LAMBDA t : t.Status = StatusCompleted))
    /\ Stats.failed = Len(SelectSeq(GetAll, LAMBDA t : t.Status = StatusFailed))

\* C26: a record carries a failure detail only while its Status is Failed.
C26_ErrorOnlyInFailed ==
    \A id \in DOMAIN transfers :
        transfers[id].Error # Nil => transfers[id].Status = StatusFailed

\* C27: a Pending record has no start time, and a record has an end time
\* exactly when its Status is Completed or Failed.
C27_TimestampInvariant ==
    \A id \in DOMAIN transfers :
        /\ transfers[id].Status = StatusPending => transfers[id].StartTime = 0
        /\ transfers[id].EndTime # 0 <=> IsTerminal(transfers[id].Status)

\* C28: with a clock that never goes back, every record's Duration is >= 0,
\* it is 0 for a record with no start time, and a record with both
\* timestamps has its end time at or after its start time.
C28_DurationNotNegative ==
    \A id \in DOMAIN transfers :
        /\ Duration(transfers[id]) >= 0
        /\ transfers[id].StartTime = 0 => Duration(transfers[id]) = 0
        /\ (transfers[id].StartTime # 0 /\ transfers[id].EndTime # 0)
              => transfers[id].EndTime >= transfers[id].StartTime

\* C29: Complete(id) on a tracked id leaves the record Completed at exactly
\* 100 percent, whatever the percentage was, with its byte counts as they
\* were.
C29_CompleteForcesFullProgress ==
    [][\A id \in Ids :
          (id \in DOMAIN transfers /\ Complete(id)) =>
              /\ transfers'[id].Status = StatusCompleted
              /\ transfers'[id].Progress = 100
              /\ transfers'[id].BytesCopied = transfers[id].BytesCopied
              /\ transfers'[id].BytesTotal = transfers[id].BytesTotal]_vars

\* t1 was completed after a 55 percent update, t2 with no update at all.
C29_Witness ==
    /\ DOMAIN transfers = {"t1", "t2"}
    /\ transfers["t1"].Status = StatusCompleted
    /\ transfers["t1"].Progress = 100
    /\ transfers["t1"].BytesCopied = 5632
    /\ transfers["t2"].Status = StatusCompleted
    /\ transfers["t2"].Progress = 100
    /\ transfers["t2"].BytesTotal = 0

(***************************************************************************)
(* SpecUnknownId: the program of SpecExec run for the id DecId with no     *)
(* manager.Add(DecId, ...) before it: Start, the decoder's UpdateProgress  *)
(* calls and Complete or Fail all name an id the Manager does not track.   *)
(* The Manager tracks OtherId, Added, Started and at 10 percent.           *)
(***************************************************************************)
OtherRecord ==
    [NewTransfer(OtherId, "/src/a", "remote:b")
        EXCEPT !.Status = StatusInProgress, !.StartTime = 1,
               !.Progress = 10, !.BytesCopied = 1024, !.BytesTotal = 10240]

InitUnknownId ==
    /\ IdleUi
    /\ IdleLock
    /\ IdleLine
    /\ now = 1
    /\ transfers = [i \in {OtherId} |-> OtherRecord]
    /\ order = <<OtherId>>
    /\ IdleRace
    /\ IdlePure
    /\ IdleDec
    /\ IdleRetry
    /\ proc = "none"
    /\ exitCode = 0
    /\ epc = "idle"
    /\ cmdErr = Nil
    /\ ret = Nil
    /\ cpc = "start"

SpecUnknownId == InitUnknownId /\ [][NextExec]_vars

\* C25: Start, UpdateProgress, Complete and Fail called with an id that was
\* never Added, and a decoder run for such an id, leave the Store as it was:
\* no record is created, the tracked record is not altered, and Get, GetAll
\* and Stats give what they gave before.
C25_UnknownIdsAreNoOps ==
    /\ transfers = [i \in {OtherId} |-> OtherRecord]
    /\ order = <<OtherId>>
    /\ Get(DecId) = [t |-> Nil, exists |-> FALSE]
    /\ Get(OtherId) = [t |-> OtherRecord, exists |-> TRUE]
    /\ GetAll = <<OtherRecord>>
    /\ Stats = [pending |-> 0, inProgress |-> 1, completed |-> 0, failed |-> 0]

\* Start, two UpdateProgress calls and Fail have been made for the unknown id.
C25_Witness ==
    /\ cpc = "done"
    /\ ret # Nil
    /\ Len(applied) = 2
    /\ DecId \notin DOMAIN transfers

(***************************************************************************)
(* rclone.go: the argument vector of Execute (the statements before        *)
(* exec.CommandContext).                                                   *)
(***************************************************************************)
RcloneCopy == "copy"
RcloneCopyTo == "copyto"
RcloneMove == "move"
RcloneMoveTo == "moveto"
RcloneSync == "sync"

BuildArgsFlagsLast(opts) ==
    LET statsInterval == IF opts.StatsInterval = "" THEN "500ms" ELSE opts.StatsInterval
    IN <<opts.Command, "-v", "--stats", statsInterval>>
       \o (IF opts.DryRun THEN <<"--dry-run">> ELSE <<>>)
       \o <<opts.Source, opts.Destination>>
       \o opts.Flags

\* args, as Execute has it when it calls exec.CommandContext(ctx, "rclone", args...)
BuildArgs(opts) ==
    LET args0 == <<opts.Command, "-v">>
        statsInterval == IF opts.StatsInterval = "" THEN "500ms" ELSE opts.StatsInterval
        args1 == args0 \o <<"--stats", statsInterval>>
        args2 == IF opts.DryRun THEN Append(args1, "--dry-run") ELSE args1
        args3 == args2 \o opts.Flags
    IN args3 \o <<opts.Source, opts.Destination>>

(***************************************************************************)
(* SpecArgs: the construction on any options value with at most MaxFlags   *)
(* extra flags.                                                            *)
(***************************************************************************)
MaxFlags == 2

ArgFlags == {"--checksum", "--transfers=4", "--dry-run"}

ArgOptions ==
    [Command : {RcloneCopy, RcloneCopyTo, RcloneMove, RcloneMoveTo, RcloneSync},
     Source : {"/src/a"},
     Destination : {"remote:b"},
     Flags : UNION {[1..n -> ArgFlags] : n \in 0..MaxFlags},
     StatsInterval : {"", "1s"},
     DryRun : BOOLEAN]

notArgs == <<uiVars, lockVars, lineVars, pfIn, arch, storeVars, raceVars, decVars, execVars, retryVars,
             clsErr, clsRes, clsPc, psValue, psUnit, psRes, psPc>>

\* Execute, from its first statement to cmd := exec.CommandContext(...)
ArgsCall ==
    /\ argPc = "call"
    /\ argVec' = BuildArgs(argOpts)
    /\ argPc' = "done"
    /\ UNCHANGED <<argOpts, notArgs>>

InitArgs ==
    /\ IdleUi
    /\ IdleLock
    /\ IdleLine
    /\ NewManager
    /\ now = 1
    /\ IdleRace
    /\ IdleDec
    /\ IdleExec
    /\ IdleRetry
    /\ clsErr = <<>>
    /\ clsRes = <<>>
    /\ clsPc = "idle"
    /\ psValue = <<>>
    /\ psUnit = <<>>
    /\ psRes = <<>>
    /\ psPc = "idle"
    /\ argOpts \in ArgOptions
    /\ argVec = <<>>
    /\ argPc = "call"
    /\ pfIn = <<>>
    /\ arch = "amd64"

NextArgs == ArgsCall

SpecArgs == InitArgs /\ [][NextArgs]_vars

\* C30: the vector is the verb, "-v", "--stats" and the interval ("500ms"
\* when StatsInterval is empty), then "--dry-run" exactly when DryRun is set,
\* then the extra flags in their order, then source and destination last.
C30_ArgumentVectorShape ==
    argPc = "done" =>
        LET n == Len(argVec)
            k == IF argOpts.DryRun THEN 5 ELSE 4
        IN /\ n = k + Len(argOpts.Flags) + 2
           /\ argVec[1] = argOpts.Command
           /\ argVec[2] = "-v"
           /\ argVec[3] = "--stats"
           /\ argVec[4] = (IF argOpts.StatsInterval = "" THEN "500ms"
                           ELSE argOpts.StatsInterval)
           /\ argOpts.DryRun => argVec[5] = "--dry-run"
           /\ \A j \in 1..Len(argOpts.Flags) : argVec[k + j] = argOpts.Flags[j]
           /\ argVec[n - 1] = argOpts.Source
           /\ argVec[n] = argOpts.Destination

\* sync with DryRun, two extra flags and no StatsInterval.
C30_Witness ==
    /\ argPc = "done"
    /\ argOpts.DryRun
    /\ argOpts.StatsInterval = ""
    /\ argVec = <<"sync", "-v", "--stats", "500ms", "--dry-run",
                  "--checksum", "--transfers=4", "/src/a", "remote:b">>

(***************************************************************************)
(* Lines the progress pattern does not match.                              *)
(***************************************************************************)
\* C31: a decoded line that does not match the progress pattern, the empty
\* line included, leaves the Manager and the list of applied tuples as they
\* were, sets no error and leaves the decoder scanning; and when the decoder
\* has finished, every matching line of the stream has been applied, those
\* after an unmatched line too.
C31_UnmatchedLinesTolerated ==
    /\ [][(tokens' # tokens /\ LineUpdate(tokens'[Len(tokens')]) = <<>>)
            => /\ transfers' = transfers
               /\ order' = order
               /\ applied' = applied
               /\ serr' = serr
               /\ dpc' = "scan"]_vars
    /\ [](dpc = "done" =>
            \A i \in 1..Len(RefSplit(written)) :
                (/\ i > 1
                 /\ LineUpdate(RefSplit(written)[i]) # <<>>
                 /\ \E j \in 1..(i - 1) : LineUpdate(RefSplit(written)[j]) = <<>>)
                    => \E k \in 1..Len(applied) :
                          applied[k] = LineUpdate(RefSplit(written)[i])[1])

(***************************************************************************)
(* SpecRender: the renderer (Model.Update) beside callers of the Manager.  *)
(* Init arms the first tick; a tick that does not begin the exit arms the  *)
(* next one; the tick that sets done arms the doneMsg timer of two seconds *)
(* and no further tick.  Bubble Tea hands Update one message at a time, so *)
(* a key or the doneMsg is handled between ticks.  The tick itself is not  *)
(* atomic: Stats and GetAll are two critical sections under RLock, and the *)
(* loop reads t.Status of the records GetAll returned with no lock held,   *)
(* so the callers' Add, Start, Complete and Fail run between its steps.    *)
(* The renderer's exit reads the Status counts only, so UpdateProgress is  *)
(* not called here and the clock stands still.                             *)
(*                                                                         *)
(* The locals of the tick are gone when Update returns.                    *)
(*                                                                         *)
(* An element of uiList is a *Transfer: its ID, and whether it is still    *)
(* the record the map holds under that ID (live); Add puts a new record    *)
(* into the map, and the one the renderer holds then keeps the Status it   *)
(* had.                                                                    *)
(***************************************************************************)
notRender == <<storeVars, raceVars, decVars, execVars, retryVars, pureVars, lockVars, lineVars>>

\* The transfers the callers of SpecRender add.
MaxRenderOrder == 2

\* case tickMsg: pending, inProgress, _, _ := m.manager.Stats()
RenderTickStats ==
    /\ uipc = "ticking"
    /\ uiStats' = [pending |-> Stats.pending, inProgress |-> Stats.inProgress]
    /\ uipc' = "tick_check"
    /\ UNCHANGED <<done, bars, uiList, notRender>>

\* The exit taken whenever nothing is Pending.
RenderTickCheckEager ==
    /\ uipc = "tick_check"
    /\ IF uiStats.pending = 0 /\ ~done
       THEN /\ done' = TRUE
            /\ uipc' = "grace"
            /\ uiStats' = <<>>
       ELSE /\ uipc' = "tick_getall"
            /\ UNCHANGED <<done, uiStats>>
    /\ UNCHANGED <<bars, uiList, notRender>>

\* if pending == 0 && inProgress == 0 && !m.done { m.done = true; return
\* m, tea.Sequence(tea.Tick(2*time.Second, ...)) }
RenderTickCheck ==
    /\ uipc = "tick_check"
    /\ IF uiStats.pending = 0 /\ uiStats.inProgress = 0 /\ ~done
       THEN /\ done' = TRUE
            /\ uipc' = "grace"
            /\ uiStats' = <<>>
       ELSE /\ uipc' = "tick_getall"
            /\ UNCHANGED <<done, uiStats>>
    /\ UNCHANGED <<bars, uiList, notRender>>

\* for _, t := range m.manager.GetAll(): the call, under RLock.
RenderTickGetAll ==
    /\ uipc = "tick_getall"
    /\ uiList' = [k \in 1..Len(GetAll) |->
                     [ID |-> GetAll[k].ID, live |-> TRUE, Status |-> GetAll[k].Status]]
    /\ uipc' = "tick_range"
    /\ UNCHANGED <<done, bars, uiStats, notRender>>

\* One iteration of the loop: if t.Status == StatusInProgress and the id has
\* no bar, m.progress[t.ID] = prog.  After the last one: cmds = append(cmds,
\* tickCmd()); return m, tea.Batch(cmds...).
RenderTickRange ==
    /\ uipc = "tick_range"
    /\ IF uiList = <<>>
       THEN /\ uipc' = "ticking"
            /\ uiStats' = <<>>
            /\ UNCHANGED <<bars, uiList>>
       ELSE LET t == Head(uiList)
                status == IF t.live THEN transfers[t.ID].Status ELSE t.Status
            IN /\ bars' = IF status = StatusInProgress THEN bars \cup {t.ID} ELSE bars
               /\ uiList' = Tail(uiList)
               /\ UNCHANGED <<uipc, uiStats>>
    /\ UNCHANGED <<done, notRender>>

\* case doneMsg: the timer of two seconds has fired.
RenderDoneMsg ==
    /\ uipc = "grace"
    /\ uipc' = "quit"
    /\ UNCHANGED <<done, bars, uiStats, uiList, notRender>>

\* case tea.KeyMsg: "q" or ctrl+c
RenderKeyQuit ==
    /\ uipc \in {"ticking", "grace"}
    /\ uipc' = "quit"
    /\ UNCHANGED <<done, bars, uiStats, uiList, notRender>>

\* A caller's Add: the records the renderer holds of this id are no longer
\* the one in the map.
RenderAdd ==
    \E id \in Ids, s \in Sources, d \in Destinations :
        /\ Len(order) < MaxRenderOrder
        /\ Add(id, s, d)
        /\ uiList' = [k \in 1..Len(uiList) |->
                         IF uiList[k].ID = id /\ uiList[k].live
                         THEN [uiList[k] EXCEPT !.live = FALSE,
                                                !.Status = transfers[id].Status]
                         ELSE uiList[k]]
        /\ UNCHANGED <<now, done, uipc, bars, uiStats,
                       raceVars, decVars, execVars, retryVars, pureVars, lockVars, lineVars>>

InitRender ==
    /\ NewManager
    /\ now = 1
    /\ IdleRace
    /\ IdlePure
    /\ IdleDec
    /\ IdleExec
    /\ IdleRetry
    /\ IdleLock
    /\ IdleLine
    /\ done = FALSE
    /\ uipc = "ticking"
    /\ bars = {}
    /\ uiStats = <<>>
    /\ uiList = <<>>

RenderTick ==
    \/ RenderTickStats
    \/ RenderTickCheck
    \/ RenderTickGetAll
    \/ RenderTickRange

NextRender ==
    \/ RenderAdd
    \/ StoreStart
    \/ StoreComplete
    \/ StoreFail
    \/ RenderTickStats
    \/ RenderTickCheck
    \/ RenderTickGetAll
    \/ RenderTickRange
    \/ RenderDoneMsg
    \/ RenderKeyQuit

SpecRender == InitRender /\ [][NextRender]_vars

\* The tick timer and the doneMsg timer fire once armed, and Update runs on.
SpecRenderFair == SpecRender /\ WF_vars(RenderTick) /\ WF_vars(RenderDoneMsg)

\* Every tracked transfer is Completed or Failed.
AllSettled == \A i \in DOMAIN transfers : IsTerminal(transfers[i].Status)

\* C32: the renderer begins its exit only on a tick at which Stats reported
\* no Pending and no InProgress transfer; done is set on that tick only and
\* never reset; once it is set the renderer quits; and when the transfers
\* stay Completed or Failed from some point on, the renderer quits.
C32_RendererExit ==
    /\ [][(uipc # "grace" /\ uipc' = "grace")
            => (uipc = "tick_check" /\ uiStats.pending = 0 /\ uiStats.inProgress = 0)]_vars
    /\ [][(uipc = "ticking" /\ uipc' = "tick_check")
            => (uiStats'.pending = Stats.pending /\ uiStats'.inProgress = Stats.inProgress)]_vars
    /\ [][(done' # done) => (~done /\ uipc = "tick_check" /\ uipc' = "grace")]_vars
    /\ (done ~> (uipc = "quit"))
    /\ (<>[]AllSettled => <>(uipc = "quit"))

\* The renderer has quit after its grace delay with two transfers tracked,
\* one Completed and one Failed, and a bar made while one was InProgress.
C32_Witness ==
    /\ uipc = "quit"
    /\ done
    /\ bars # {}
    /\ Stats.completed = 1
    /\ Stats.failed = 1

(***************************************************************************)
(* SpecExecCancel: SpecExec with opts.Context, which may be cancelled at   *)
(* any time.  cmd.Start fails on a context that is done already.  For a    *)
(* started command os/exec runs a goroutine that watches the context and   *)
(* calls Process.Kill once it is done: the cancellation and the kill are   *)
(* two steps, and between them the subprocess still runs, writes and may   *)
(* exit on its own.  The subprocess may run for ever; cmd.Wait, the        *)
(* receive from done, the watching goroutine and the decoder goroutine are *)
(* scheduled fairly.                                                       *)
(***************************************************************************)
\* cancel(): the context becomes done.
ExecCtxCancel ==
    /\ ~ctxDone
    /\ cpc \in {"start", "execute"}
    /\ ctxDone' = TRUE
    /\ cancelAt' = [pc |-> IF epc = "wait" /\ proc = "running" THEN "wait_running"
                           ELSE "other",
                    attempt |-> 0]
    /\ UNCHANGED <<storeVars, raceVars, decVars, execVars, pureVars,
                   uiVars, lockVars, lineVars>>
    /\ UNCHANGED <<inCfg, retryCfg, attempt, delay, lastErr, rpc, rret,
                   calls, waits, firstOk>>

\* The command was built with exec.Command: nothing watches the context.
ExecCtxKillNever ==
    /\ ctxDone
    /\ proc = "running"
    /\ UNCHANGED vars

\* exec.CommandContext: the watching goroutine has seen ctx.Done() and calls
\* Process.Kill; the subprocess still running ends by the signal.
ExecCtxKill ==
    /\ ctxDone
    /\ proc = "running"
    /\ proc' = "exited"
    /\ exitCode' = Killed
    /\ UNCHANGED <<storeVars, raceVars, decVars, epc, cmdErr, ret, cpc, pureVars,
                   uiVars, lockVars, lineVars, retryVars>>

\* cmd.Start() on a context that is not done.
ExecStartLive == ~ctxDone /\ ExecStart

NextExecCancel ==
    \/ MainStart
    \/ ExecStartFails
    \/ ExecStartLive
    \/ ProcWrite
    \/ ProcExit
    \/ ExecWait
    \/ ExecJoin
    \/ MainFinish
    \/ DecScanToken
    \/ DecScanMore
    \/ DecReadChunk
    \/ DecReadEOF
    \/ DecReadClosed
    \/ ExecCtxCancel
    \/ ExecCtxKill

SpecExecCancel == InitExec /\ [][NextExecCancel]_vars

\* A step of the goroutine that runs Execute.
ExecuteStep == ExecWait \/ ExecJoin

\* A step of the decoder goroutine in which Scan returns no token.
DecoderStep == DecScanMore \/ DecReadChunk \/ DecReadEOF \/ DecReadClosed

\* The step of DecScanToken, told by its guard and by the token it appends.
DecTokenStep ==
    /\ dpc = "scan"
    /\ buf # <<>> \/ serr # Nil
    /\ SplitFunc(buf, serr # Nil).has
    /\ tokens' = Append(tokens, SplitFunc(buf, serr # Nil).token)

\* The goroutines take their next step when they can.
SpecExecCancelFair ==
    /\ SpecExecCancel
    /\ WF_vars(ExecuteStep)
    /\ WF_vars(DecoderStep)
    /\ WF_tokens(DecTokenStep)
    /\ WF_vars(ExecCtxKill)

\* The cancellation found Execute waiting on a running subprocess.
CancelledWhileRunning == cancelAt.pc = "wait_running"

\* C33: when the context is cancelled while Execute waits on a running
\* subprocess, the subprocess is ended, the decoder goroutine finishes and
\* Execute returns, and the error it returns is not nil.
C33_CancellationUnblocksExecute ==
    /\ (CancelledWhileRunning ~> (epc = "returned" /\ dpc = "done" /\ proc = "exited"))
    /\ [](CancelledWhileRunning /\ epc = "returned" => ret # Nil)

\* C33 as amended: when the context is cancelled while Execute waits on a
\* running subprocess, the subprocess is ended (by the kill, unless it
\* exits on its own first), the decoder goroutine finishes and Execute
\* returns; the error it returns is not nil unless the subprocess exited
\* with status 0 on its own before the kill reached it, and it is the
\* kill's error when the kill ended the subprocess.
C33_CancellationUnblocksExecuteAmended ==
    /\ (CancelledWhileRunning ~> (epc = "returned" /\ dpc = "done" /\ proc = "exited"))
    /\ [](CancelledWhileRunning /\ epc = "returned" /\ exitCode # 0 => ret # Nil)
    /\ [](epc = "returned" /\ exitCode = Killed => ret = KilledError)
    /\ [][(exitCode' = Killed /\ exitCode # Killed) => (ctxDone /\ proc = "running")]_vars

\* Execute has returned the kill's error after a cancellation that found the
\* subprocess running with a progress line written.
C33_Witness ==
    /\ CancelledWhileRunning
    /\ exitCode = Killed
    /\ epc = "returned"
    /\ ret = KilledError
    /\ dpc = "done"
    /\ written # <<>>

(***************************************************************************)
(* SpecMutex: tasks that call the Manager concurrently, each call at       *)
(* statement granularity.  Every writer task makes one call of Add, Start, *)
(* UpdateProgress, Complete or Fail on LockId, every reader task one call  *)
(* of Get, GetAll or Stats.  m.mu is a sync.RWMutex: Lock waits until no   *)
(* Lock and no RLock is held, RLock until no Lock is held.                 *)
(***************************************************************************)
LockId == "t1"

Writers == {"w1", "w2"}
Readers == {"r1", "r2"}

WriteOps == {"Add", "Start", "UpdateProgress", "Complete", "Fail"}
ReadOps == {"Get", "GetAll", "Stats"}

\* The tuple each writer task passes to UpdateProgress.
TupleOf(w) == IF w = "w1" THEN <<10, 1024, 10240>> ELSE <<55, 5632, 10240>>

\* A task is between its Lock or RLock and its Unlock or RUnlock.
InCritical(t) == tpc[t].pc \notin {"idle", "done"}

SetPc(t, pc) == tpc' = [tpc EXCEPT ![t].pc = pc]

notMutex == <<now, rdpc, wpc, wq, snap, committed, decVars, execVars, retryVars, pureVars,
              uiVars, lineVars>>

\* m.mu.Lock() that waits for no one.
MutexLockNoWait(w) ==
    /\ tpc[w].pc = "idle"
    /\ \E op \in WriteOps :
          tpc' = [tpc EXCEPT ![w] = [op |-> op,
                                     pc |-> IF op = "UpdateProgress" THEN "lookup" ELSE "body"]]
    /\ mu' = "writer"
    /\ UNCHANGED <<transfers, order, readers, notMutex>>

\* m.mu.Lock() of Add, Start, UpdateProgress, Complete or Fail.
MutexLock(w) ==
    /\ tpc[w].pc = "idle"
    /\ mu = "free"
    /\ readers = 0
    /\ \E op \in WriteOps :
          tpc' = [tpc EXCEPT ![w] = [op |-> op,
                                     pc |-> IF op = "UpdateProgress" THEN "lookup" ELSE "body"]]
    /\ mu' = "writer"
    /\ UNCHANGED <<transfers, order, readers, notMutex>>

\* UpdateProgress: if t, exists := m.transfers[id]; exists
MutexLookup(w) ==
    /\ tpc[w].pc = "lookup"
    /\ SetPc(w, IF LockId \in DOMAIN transfers THEN "upd_progress" ELSE "unlock")
    /\ UNCHANGED <<transfers, order, mu, readers, notMutex>>

\* UpdateProgress: t.Progress = progress
MutexSetProgress(w) ==
    /\ tpc[w].pc = "upd_progress"
    /\ transfers' = [transfers EXCEPT ![LockId].Progress = TupleOf(w)[1]]
    /\ SetPc(w, "upd_copied")
    /\ UNCHANGED <<order, mu, readers, notMutex>>

\* UpdateProgress: t.BytesCopied = bytesCopied
MutexSetBytesCopied(w) ==
    /\ tpc[w].pc = "upd_copied"
    /\ transfers' = [transfers EXCEPT ![LockId].BytesCopied = TupleOf(w)[2]]
    /\ SetPc(w, "upd_total")
    /\ UNCHANGED <<order, mu, readers, notMutex>>

\* UpdateProgress: t.BytesTotal = bytesTotal
MutexSetBytesTotal(w) ==
    /\ tpc[w].pc = "upd_total"
    /\ transfers' = [transfers EXCEPT ![LockId].BytesTotal = TupleOf(w)[3]]
    /\ SetPc(w, "unlock")
    /\ UNCHANGED <<order, mu, readers, notMutex>>

\* The statements of Add, Start, Complete or Fail between Lock and Unlock.
MutexBody(w) ==
    /\ tpc[w].pc = "body"
    /\ CASE tpc[w].op = "Add" ->
               /\ Len(order) < MaxOrder
               /\ Add(LockId, "/src/a", "remote:b")
         [] tpc[w].op = "Start" -> Start(LockId) /\ UNCHANGED order
         [] tpc[w].op = "Complete" -> Complete(LockId) /\ UNCHANGED order
         [] tpc[w].op = "Fail" -> Fail(LockId, ExitError) /\ UNCHANGED order
    /\ SetPc(w, "unlock")
    /\ UNCHANGED <<mu, readers, notMutex>>

\* defer m.mu.Unlock()
MutexUnlock(w) ==
    /\ tpc[w].pc = "unlock"
    /\ mu' = "free"
    /\ SetPc(w, "done")
    /\ UNCHANGED <<transfers, order, readers, notMutex>>

\* m.mu.RLock() of Get, GetAll or Stats.
MutexRLock(r) ==
    /\ tpc[r].pc = "idle"
    /\ mu = "free"
    /\ readers' = readers + 1
    /\ \E op \in ReadOps : tpc' = [tpc EXCEPT ![r] = [op |-> op, pc |-> "read"]]
    /\ UNCHANGED <<transfers, order, mu, notMutex>>

\* The statements of Get, GetAll or Stats: they read and write nothing.
MutexRead(r) ==
    /\ tpc[r].pc = "read"
    /\ SetPc(r, "runlock")
    /\ UNCHANGED <<transfers, order, mu, readers, notMutex>>

\* defer m.mu.RUnlock()
MutexRUnlock(r) ==
    /\ tpc[r].pc = "runlock"
    /\ readers' = readers - 1
    /\ SetPc(r, "done")
    /\ UNCHANGED <<transfers, order, mu, notMutex>>

\* The transfer LockId is Added and Started; no task has called yet.
InitMutex ==
    /\ now = 1
    /\ transfers = [i \in {LockId} |->
                      [NewTransfer(LockId, "/src/a", "remote:b")
                          EXCEPT !.Status = StatusInProgress, !.StartTime = 1]]
    /\ order = <<LockId>>
    /\ mu = "free"
    /\ wpc = "idle"
    /\ wq = <<>>
    /\ rdpc = "idle"
    /\ snap = <<>>
    /\ committed = {}
    /\ IdlePure
    /\ IdleDec
    /\ IdleExec
    /\ IdleRetry
    /\ IdleUi
    /\ IdleLine
    /\ readers = 0
    /\ tpc = [t \in Writers \cup Readers |-> [op |-> "none", pc |-> "idle"]]

NextMutex ==
    \/ \E w \in Writers : MutexLock(w)
    \/ \E w \in Writers : MutexLookup(w)
    \/ \E w \in Writers : MutexSetProgress(w)
    \/ \E w \in Writers : MutexSetBytesCopied(w)
    \/ \E w \in Writers : MutexSetBytesTotal(w)
    \/ \E w \in Writers : MutexBody(w)
    \/ \E w \in Writers : MutexUnlock(w)
    \/ \E r \in Readers : MutexRLock(r)
    \/ \E r \in Readers : MutexRead(r)
    \/ \E r \in Readers : MutexRUnlock(r)

SpecMutex == InitMutex /\ [][NextMutex]_vars

\* C34: at most one writer call is inside its critical section; no reader
\* call is inside its critical section together with a writer call; and
\* when both writer tasks called UpdateProgress and both have returned, the
\* record holds the whole tuple of one of them.
C34_StoreMutualExclusion ==
    /\ Cardinality({w \in Writers : InCritical(w)}) <= 1
    /\ (\E w \in Writers : InCritical(w)) => (\A r \in Readers : ~InCritical(r))
    /\ (\A w \in Writers : tpc[w].op = "UpdateProgress" /\ tpc[w].pc = "done")
          => \E w \in Writers :
                <<transfers[LockId].Progress, transfers[LockId].BytesCopied,
                  transfers[LockId].BytesTotal>> = TupleOf(w)

\* Both readers are inside their critical sections at once, after both
\* writers have returned from UpdateProgress.
C34_Witness ==
    /\ \A r \in Readers : tpc[r].pc = "read"
    /\ readers = 2
    /\ \A w \in Writers : tpc[w].op = "UpdateProgress" /\ tpc[w].pc = "done"
    /\ transfers[LockId].Progress = 55
    /\ transfers[LockId].BytesCopied = 5632

(***************************************************************************)
(* The attempt count of the errors, and the growth of the backoff delay.   *)
(***************************************************************************)
\* C35: an error ExecuteWithRetry returns that names a number of attempts,
\* "failed after N attempts" or "context cancelled after N attempts", names
\* the number of times Execute was invoked during the call.
C35_AttemptCountIsTrue ==
    (rpc = "done" /\ rret.kind \in {"failed", "cancelled"}) => rret.n = calls

\* Cancelled after the second wait, before the third attempt: the error
\* names two attempts.
C35_Witness ==
    /\ rpc = "done"
    /\ rret.kind = "cancelled"
    /\ rret.n = 2
    /\ calls = 2
    /\ Len(waits) = 2

\* C36: the first wait is InitialDelay and every later wait is the one
\* before it times Multiplier, capped at MaxDelay; delay holds the wait that
\* comes next; with 3 attempts, 10ms, factor 2 and cap 100ms the waits are
\* 10ms and 20ms; and delay changes only at the end of a wait that expired,
\* never in the step that returns on a cancellation.
C36_BackoffGrowth ==
    /\ [](rpc \notin {"idle", "entry"} =>
            /\ \A i \in 1..Len(waits) :
                  waits[i] = IF i = 1 THEN retryCfg.InitialDelay
                             ELSE Min(waits[i - 1] * retryCfg.Multiplier, retryCfg.MaxDelay)
            /\ delay = IF waits = <<>> THEN retryCfg.InitialDelay
                       ELSE Min(waits[Len(waits)] * retryCfg.Multiplier, retryCfg.MaxDelay)
            /\ (inCfg = TenMsRetryConfig /\ rpc = "done" /\ rret.kind = "failed")
                  => waits = <<10, 20>>)
    /\ [][(rpc = "backoff" /\ delay' # delay) => waits' = Append(waits, delay)]_vars
    /\ [][(rpc = "backoff" /\ rpc' = "done") => (delay' = delay /\ waits' = waits)]_vars

\* The three attempts of the 10ms configuration have failed; the second
\* wait was 20ms.
C36_Witness ==
    /\ inCfg = TenMsRetryConfig
    /\ rpc = "done"
    /\ rret.kind = "failed"
    /\ calls = 3
    /\ waits = <<10, 20>>
    /\ delay = 40

(***************************************************************************)
(* The decoder and a stream it cannot tokenize.                            *)
(***************************************************************************)
\* C37: whatever the stream holds, the decoder returns only when the stream
\* has closed and it has consumed all of it: it has seen the end of the
\* stream, nothing is left unread in the pipe or unscanned in its buffer,
\* and the progress lines of the whole stream have been applied.
C37_DecoderDrainsStream ==
    dpc = "done" =>
        /\ serr = "EOF"
        /\ pipe = <<>>
        /\ buf = <<>>
        /\ Len(applied) = Len(RefUpdates(RefSplit(written)))

(***************************************************************************)
(* SpecRetryExec: ExecuteWithRetry with Execute itself in place of its     *)
(* result.  The caller has Added and Started the transfer and calls        *)
(* ExecuteWithRetry with two attempts and a context that is never          *)
(* cancelled.  Each call of Execute makes a new pipe, a new scanner and a  *)
(* new decoder goroutine; its subprocess writes at most MaxWriteRetry      *)
(* units of RetryUnits.  tokens and applied go on through the attempts.    *)
(***************************************************************************)
MaxWriteRetry == 2

RetryUnits == {LF, "L10", "L55"}

\* RetryConfig{MaxAttempts: 2, InitialDelay: 1ms, MaxDelay: 1ms, Multiplier: 1}
TwoAttempts == [MaxAttempts |-> 2, InitialDelay |-> 1, MaxDelay |-> 1, Multiplier |-> 1]

idleVars == <<raceVars, pureVars, uiVars, lockVars, lineVars>>

\* RxExecStart with Execute marking the transfer started.
RxExecStartMarking ==
    /\ rpc = "exec"
    /\ epc = "idle"
    /\ proc' = "running"
    /\ pipe' = <<>>
    /\ written' = <<>>
    /\ rclosed' = FALSE
    /\ buf' = <<>>
    /\ serr' = Nil
    /\ dpc' = "scan"
    /\ epc' = "wait"
    /\ Start(DecId)
    /\ UNCHANGED <<order, now, tokens, applied, exitCode, cmdErr, ret, cpc, retryVars, idleVars>>

\* Execute of one attempt: cmd.StderrPipe(), cmd.Start(), go parseRcloneOutput(...)
RxExecStart ==
    /\ rpc = "exec"
    /\ epc = "idle"
    /\ proc' = "running"
    /\ pipe' = <<>>
    /\ written' = <<>>
    /\ rclosed' = FALSE
    /\ buf' = <<>>
    /\ serr' = Nil
    /\ dpc' = "scan"
    /\ epc' = "wait"
    /\ UNCHANGED <<storeVars, tokens, applied, exitCode, cmdErr, ret, cpc, retryVars, idleVars>>

\* Execute of one attempt: cmd.StderrPipe() or cmd.Start() fails and Execute
\* returns the error; no subprocess and no decoder goroutine is started.
RxExecStartFails ==
    /\ rpc = "exec"
    /\ ExecStartFails

\* The subprocess of the attempt writes to its stderr.
RxProcWrite ==
    /\ proc = "running"
    /\ Len(written) < MaxWriteRetry
    /\ \E u \in RetryUnits :
          /\ pipe' = Append(pipe, u)
          /\ written' = Append(written, u)
    /\ UNCHANGED <<transfers, rclosed, buf, serr, dpc, tokens, applied, execVars, notExec>>

\* err := e.Execute(transferID, opts) has returned nil: return nil
RxReturnOk ==
    /\ rpc = "exec"
    /\ epc = "returned"
    /\ ret = Nil
    /\ calls' = calls + 1
    /\ firstOk' = IF firstOk = 0 THEN attempt ELSE firstOk
    /\ rret' = RNil
    /\ rpc' = "done"
    /\ epc' = "idle"
    /\ UNCHANGED <<inCfg, retryCfg, attempt, delay, lastErr, ctxDone, waits, cancelAt>>
    /\ UNCHANGED <<storeVars, decVars, proc, exitCode, cmdErr, ret, cpc, idleVars>>

\* err := e.Execute(transferID, opts) has returned an error: lastErr = err,
\* and the loop is left after the last attempt.
RxReturnFails ==
    /\ rpc = "exec"
    /\ epc = "returned"
    /\ ret # Nil
    /\ calls' = calls + 1
    /\ lastErr' = ErrOfAttempt(attempt)
    /\ IF IsLastAttempt(attempt, retryCfg)
       THEN /\ rret' = FailedAfter(retryCfg.MaxAttempts, ErrOfAttempt(attempt))
            /\ rpc' = "done"
       ELSE /\ rpc' = "backoff"
            /\ UNCHANGED rret
    /\ epc' = "idle"
    /\ UNCHANGED <<inCfg, retryCfg, attempt, delay, ctxDone, waits, firstOk, cancelAt>>
    /\ UNCHANGED <<storeVars, decVars, proc, exitCode, cmdErr, ret, cpc, idleVars>>

InitRetryExec ==
    /\ now = 1
    /\ transfers = [i \in {DecId} |->
                      [NewTransfer(DecId, "/src/a", "remote:b")
                          EXCEPT !.Status = StatusInProgress, !.StartTime = 1]]
    /\ order = <<DecId>>
    /\ IdleRace
    /\ IdlePure
    /\ IdleUi
    /\ IdleLock
    /\ IdleLine
    /\ IdleDec
    /\ proc = "none"
    /\ exitCode = 0
    /\ epc = "idle"
    /\ cmdErr = Nil
    /\ ret = Nil
    /\ cpc = "execute"
    /\ inCfg = TwoAttempts
    /\ retryCfg = inCfg
    /\ attempt = 0
    /\ delay = 0
    /\ lastErr = RNil
    /\ rpc = "entry"
    /\ rret = RNil
    /\ ctxDone = FALSE
    /\ calls = 0
    /\ waits = <<>>
    /\ firstOk = 0
    /\ cancelAt = NotCancelled

NextRetryExec ==
    \/ RetryEntry
    \/ RetryCheckCtx
    \/ RxExecStart
    \/ RxExecStartFails
    \/ RxProcWrite
    \/ ProcExit
    \/ ExecWait
    \/ ExecJoin
    \/ DecScanToken
    \/ DecScanMore
    \/ DecReadChunk
    \/ DecReadEOF
    \/ DecReadClosed
    \/ RxReturnOk
    \/ RxReturnFails
    \/ RetryBackoffElapsed

SpecRetryExec == InitRetryExec /\ [][NextRetryExec]_vars

\* The (Progress, BytesCopied, BytesTotal) of the transfer's record.
RecordTuple(t) == <<t.Progress, t.BytesCopied, t.BytesTotal>>

\* C38: the subprocess of an attempt is started only when no decoder
\* goroutine of an earlier attempt is still running, so one decoder at most
\* writes the record; the record changes only when a decoder applies a
\* matched line, and then to that line's tuple: it is not reset between
\* attempts and holds the last tuple applied until the next one is.
C38_AttemptsSequential ==
    /\ [][(proc # "running" /\ proc' = "running") => dpc \in {"idle", "done"}]_vars
    /\ [][(transfers' # transfers)
            => /\ dpc \in {"scan", "read"}
               /\ Len(applied') = Len(applied) + 1
               /\ transfers' = [transfers EXCEPT
                                   ![DecId].Progress = applied'[Len(applied')][1],
                                   ![DecId].BytesCopied = applied'[Len(applied')][2],
                                   ![DecId].BytesTotal = applied'[Len(applied')][3]]]_vars
    /\ [](RecordTuple(transfers[DecId]) =
             IF applied = <<>> THEN <<0, 0, 0>> ELSE applied[Len(applied)])

\* The second attempt's subprocess runs and has written nothing yet that
\* was applied: the record still holds the 55% tuple of the first attempt.
C38_Witness ==
    /\ attempt = 2
    /\ calls = 1
    /\ proc = "running"
    /\ dpc \in {"scan", "read"}
    /\ tokens = << <<"L55">> >>
    /\ written = <<"L10">>
    /\ RecordTuple(transfers[DecId]) = <<55, 5632, 10240>>

(***************************************************************************)
(* SpecLifecycle: ExecuteWithRetry with the Execute, the subprocess and    *)
(* the decoder goroutine of each attempt, as in SpecRetryExec, on a record *)
(* in any status, beside a caller of UpdateProgress.  Nothing calls Add,   *)
(* Start, Complete or Fail: every step is one of UpdateProgress, of the    *)
(* decoder, of Execute, of ExecuteWithRetry or of the subprocess, which    *)
(* writes at most MaxWriteLifecycle units in an attempt.  The record the   *)
(* attempts do not write to is one that has Failed.                        *)
(***************************************************************************)
MaxWriteLifecycle == 1

\* A record as Add, Start, Complete and Fail leave it, one for each status.
LifecycleRecords(id) ==
    LET pending == NewTransfer(id, "/src/a", "remote:b")
        started == [pending EXCEPT !.Status = StatusInProgress, !.StartTime = 1]
    IN {pending,
        started,
        [started EXCEPT !.Status = StatusCompleted, !.Progress = 100, !.EndTime = 1],
        [started EXCEPT !.Status = StatusFailed, !.EndTime = 1, !.Error = ExitError]}

InitLifecycle ==
    /\ now = 1
    /\ \E r \in LifecycleRecords(DecId), o \in LifecycleRecords(OtherId) :
          /\ o.Status = StatusFailed
          /\ transfers = [i \in {DecId, OtherId} |-> IF i = DecId THEN r ELSE o]
    /\ order = <<DecId, OtherId>>
    /\ IdleRace
    /\ IdlePure
    /\ IdleUi
    /\ IdleLock
    /\ IdleLine
    /\ IdleDec
    /\ proc = "none"
    /\ exitCode = 0
    /\ epc = "idle"
    /\ cmdErr = Nil
    /\ ret = Nil
    /\ cpc = "execute"
    /\ inCfg = TwoAttempts
    /\ retryCfg = inCfg
    /\ attempt = 0
    /\ delay = 0
    /\ lastErr = RNil
    /\ rpc = "entry"
    /\ rret = RNil
    /\ ctxDone = FALSE
    /\ calls = 0
    /\ waits = <<>>
    /\ firstOk = 0
    /\ cancelAt = NotCancelled

\* The subprocess of the attempt writes to its stderr.
LcProcWrite ==
    /\ proc = "running"
    /\ Len(written) < MaxWriteLifecycle
    /\ \E u \in RetryUnits :
          /\ pipe' = Append(pipe, u)
          /\ written' = Append(written, u)
    /\ UNCHANGED <<transfers, rclosed, buf, serr, dpc, tokens, applied, execVars, notExec>>

NextLifecycle ==
    \/ StoreUpdateProgress
    \/ RetryEntry
    \/ RetryCheckCtx
    \/ RxExecStart
    \/ RxExecStartFails
    \/ LcProcWrite
    \/ ProcExit
    \/ ExecWait
    \/ ExecJoin
    \/ DecScanToken
    \/ DecScanMore
    \/ DecReadChunk
    \/ DecReadEOF
    \/ DecReadClosed
    \/ RxReturnOk
    \/ RxReturnFails
    \/ RetryBackoffElapsed

SpecLifecycle == InitLifecycle /\ [][NextLifecycle]_vars

\* The lifecycle fields of a record.
Lifecycle(t) ==
    [Status |-> t.Status, StartTime |-> t.StartTime, EndTime |-> t.EndTime, Error |-> t.Error]

\* C18: the Status, start time, end time and failure detail of every record
\* are left as they were by UpdateProgress, whatever tuple it carries and
\* whatever the record's status, and by every step of the decoder, of
\* Execute and of ExecuteWithRetry, whether the subprocess could be started,
\* succeeded or failed, in the first attempt and in the second; no such step
\* adds or removes a record.
C18_OnlyCallersWriteLifecycle ==
    /\ [][\A id \in Ids : \A tup \in Tuples :
              UpdateProgress(id, tup[1], tup[2], tup[3]) =>
                  /\ DOMAIN transfers' = DOMAIN transfers
                  /\ \A i \in DOMAIN transfers :
                        Lifecycle(transfers'[i]) = Lifecycle(transfers[i])]_vars
    /\ [][/\ DOMAIN transfers' = DOMAIN transfers
          /\ order' = order
          /\ \A i \in DOMAIN transfers :
                Lifecycle(transfers'[i]) = Lifecycle(transfers[i])]_vars

\* ExecuteWithRetry has returned its error after two failed attempts on a
\* record that was Completed: the decoder wrote the 55% tuple to it, a
\* caller wrote the 10% tuple to the Failed record beside it, and both kept
\* their status, times and failure detail.
C18_Witness ==
    /\ rpc = "done"
    /\ calls = 2
    /\ rret # RNil
    /\ applied # <<>>
    /\ Lifecycle(transfers[DecId]) =
          [Status |-> StatusCompleted, StartTime |-> 1, EndTime |-> 1, Error |-> Nil]
    /\ RecordTuple(transfers[DecId]) = <<55, 5632, 10240>>
    /\ Lifecycle(transfers[OtherId]) =
          [Status |-> StatusFailed, StartTime |-> 1, EndTime |-> 1, Error |-> ExitError]
    /\ RecordTuple(transfers[OtherId]) = <<10, 1024, 10240>>

(***************************************************************************)
(* The pre-flight checks.  What a check finds on the machine is an input:  *)
(* the error of exec.LookPath, of os.Stat, of cmd.Run, of filepath.Abs and *)
(* of syscall.Statfs (Nil for none), and the bytes available.  A check     *)
(* returns an error chain, <<>> for nil.                                   *)
(***************************************************************************)
\* strconv.Itoa(n) for n >= 0.
RECURSIVE Itoa(_)
Itoa(n) ==
    IF n < 10 THEN SubSeq("0123456789", n + 1, n + 1)
    ELSE Itoa(n \div 10) \o SubSeq("0123456789", (n % 10) + 1, (n % 10) + 1)

\* The loop of FormattedBytes: div and exp for n = bytes / unit.
RECURSIVE UnitOf(_, _, _)
UnitOf(n, div, exp) ==
    IF n >= 1024 THEN UnitOf(n \div 1024, div * 1024, exp + 1) ELSE [div |-> div, exp |-> exp]

\* FormattedBytes(bytes) for 0 <= bytes < 2^27.  "%.1f" of bytes/div, a
\* quotient that float64 holds exactly, rounds to the nearest tenth and a
\* tie to the even one.
FormattedBytes(bytes) ==
    IF bytes < 1024 THEN Itoa(bytes) \o " B"
    ELSE LET u == UnitOf(bytes \div 1024, 1024, 0)
             scaled == (bytes % u.div) * 10
             low == (bytes \div u.div) * 10 + (scaled \div u.div)
             rest == 2 * (scaled % u.div)
             tenths == IF rest > u.div \/ (rest = u.div /\ low % 2 = 1) THEN low + 1 ELSE low
         IN Itoa(tenths \div 10) \o "." \o Itoa(tenths % 10) \o " "
            \o SubSeq("KMGTPE", u.exp + 1, u.exp + 1) \o "B"

\* os.IsNotExist(err) holds of this error of os.Stat.
ErrNotExist == "no such file or directory"

\* ValidateRcloneInstalled(): lookPath is the error of exec.LookPath("rclone").
ValidateRcloneInstalled(lookPath) ==
    IF lookPath # Nil THEN WrapError("rclone not found in PATH: ", PlainError(lookPath))
    ELSE <<>>

\* ValidateSourcePath(path): stat is the error of os.Stat(path).
ValidateSourcePath(path, stat) ==
    IF path = "" THEN ValidationError("source", "source path cannot be empty")
    ELSE IF Contains(path, ":") THEN <<>>
    ELSE IF stat = Nil THEN <<>>
    ELSE IF stat = ErrNotExist
    THEN ValidationError("source", "path does not exist: " \o path)
    ELSE ValidationError("source", "cannot access path: " \o stat)

\* strings.TrimSuffix(remoteName, ":")
TrimColon(name) ==
    IF Len(name) > 0 /\ SubSeq(name, Len(name), Len(name)) = ":"
    THEN SubSeq(name, 1, Len(name) - 1) ELSE name

\* ValidateRemote(ctx, remoteName, timeout): run is the error of cmd.Run(),
\* deadline is timeoutCtx.Err() == context.DeadlineExceeded.
ValidateRemote(remoteName, run, deadline) ==
    IF remoteName = "" THEN ValidationError("remote", "remote name cannot be empty")
    ELSE IF run = Nil THEN <<>>
    ELSE IF deadline
    THEN ValidationError("remote", "timeout validating remote: " \o TrimColon(remoteName))
    ELSE ValidationError("remote", "remote not accessible: " \o TrimColon(remoteName)
                                   \o " (" \o run \o ")")

\* getAvailableDiskSpace(path): statfs is the error of syscall.Statfs.
getAvailableDiskSpace(statfs, available) ==
    IF statfs # Nil
    THEN [available |-> 0,
          err |-> WrapError("failed to get filesystem stats: ", PlainError(statfs))]
    ELSE [available |-> available, err |-> <<>>]

\* CheckDiskSpace(path, requiredBytes): abs is the error of filepath.Abs,
\* stat that of os.Stat.
CheckDiskSpace(path, abs, stat, statfs, available, requiredBytes) ==
    IF Contains(path, ":") THEN <<>>
    ELSE IF abs # Nil THEN WrapError("failed to get absolute path: ", PlainError(abs))
    ELSE IF stat # Nil /\ stat # ErrNotExist
    THEN WrapError("failed to stat path: ", PlainError(stat))
    ELSE LET space == getAvailableDiskSpace(statfs, available) IN
         IF space.err # <<>> THEN WrapError("failed to get disk space: ", space.err)
         ELSE IF space.available < requiredBytes
         THEN PlainError("insufficient disk space: need " \o FormattedBytes(requiredBytes)
                         \o ", have " \o FormattedBytes(space.available))
         ELSE <<>>

\* The error a pre-flight check returns on an input.
Preflight(in) ==
    CASE in.check = "installed" -> ValidateRcloneInstalled(in.lookPath)
      [] in.check = "source" -> ValidateSourcePath(in.path, in.stat)
      [] in.check = "remote" -> ValidateRemote(in.remote, in.run, in.deadline)
      [] in.check = "space" ->
             CheckDiskSpace(in.path, in.abs, in.stat, in.statfs, in.available, in.required)

(***************************************************************************)
(* SpecPreflight: one pre-flight check on any input of PreflightInputs,    *)
(* and ClassifyError on the failure it returns.                            *)
(***************************************************************************)
LookPathErrors == {Nil, "exec: \"rclone\": executable file not found in $PATH"}
StatErrors == {Nil, ErrNotExist, "stat /data: permission denied"}
LocalPaths == {"", "/data", "remote:b"}
RemoteNames == {"", "gdrive", "gdrive:"}
RunErrors == {Nil, "exit status 1", "signal: killed"}
AbsErrors == {Nil, "getwd: no such file or directory"}
StatfsErrors == {Nil, "input/output error"}
ByteCounts == {0, 512, 1024, 1536, 10240, 1048576}

PreflightInputs ==
    [check : {"installed"}, lookPath : LookPathErrors]
    \cup [check : {"source"}, path : LocalPaths, stat : StatErrors]
    \cup [check : {"remote"}, remote : RemoteNames, run : RunErrors, deadline : BOOLEAN]
    \cup [check : {"space"}, path : {"/data", "remote:b"}, abs : AbsErrors,
          stat : StatErrors, statfs : StatfsErrors,
          available : ByteCounts, required : ByteCounts]

notPreflight == <<uiVars, lockVars, lineVars, storeVars, raceVars, decVars, execVars,
                  retryVars, psValue, psUnit, psRes, psPc, argOpts, argVec, argPc, arch>>

\* if err := Validate...(...); err != nil { classified := ClassifyError(err) }
PreflightCall ==
    /\ clsPc = "call"
    /\ clsErr' = Preflight(pfIn)
    /\ clsRes' = IF Preflight(pfIn) = <<>> THEN <<>> ELSE ClassifyError(Preflight(pfIn))
    /\ clsPc' = "done"
    /\ UNCHANGED <<pfIn, notPreflight>>

InitPreflight ==
    /\ NewManager
    /\ now = 1
    /\ IdleRace
    /\ IdleDec
    /\ IdleExec
    /\ IdleRetry
    /\ IdleUi
    /\ IdleLock
    /\ IdleLine
    /\ clsErr = <<>>
    /\ clsRes = <<>>
    /\ clsPc = "call"
    /\ psValue = <<>>
    /\ psUnit = <<>>
    /\ psRes = <<>>
    /\ psPc = "idle"
    /\ argOpts = <<>>
    /\ argVec = <<>>
    /\ argPc = "idle"
    /\ pfIn \in PreflightInputs
    /\ arch = "amd64"

NextPreflight == PreflightCall

SpecPreflight == InitPreflight /\ [][NextPreflight]_vars

\* C39: every failure a pre-flight check returns is a typed validation
\* failure, and ClassifyError gives it InvalidInput and not retryable: that
\* of ValidateRcloneInstalled for a missing tool and that of CheckDiskSpace
\* for too little space as well.
C39_PreflightFailuresTyped ==
    (clsPc = "done" /\ clsErr # <<>>) =>
        /\ ErrorsAsValidation(clsErr)
        /\ clsRes.Type = ErrorTypeInvalidInput
        /\ ~clsRes.Retryable

(***************************************************************************)
(* SpecLine: the decoder's loop body on one line of the documented shape,  *)
(*   Transferred:   <copied> <cunit> / <total> <tunit>, <percent>%         *)
(* kept as its five parts, each a sequence of characters.                  *)
(***************************************************************************)
\* statsRegex: [0-9.]+ matches the whole of str.
StatsNumber(str) ==
    Len(str) >= 1 /\ \A j \in 1..Len(str) : str[j] \in DecimalDigits \cup {"."}

\* statsRegex: [kKMGTP]i?[Bb]? matches the whole of str.
StatsUnit(str) ==
    /\ Len(str) >= 1
    /\ str[1] \in {"k", "K", "M", "G", "T", "P"}
    /\ Tail(str) \in {<<>>, <<"i">>, <<"B">>, <<"b">>, <<"i", "B">>, <<"i", "b">>}

\* statsRegex: [0-9]+ matches the whole of str.
StatsPercent(str) ==
    Len(str) >= 1 /\ \A j \in 1..Len(str) : str[j] \in DecimalDigits

\* statsRegex.FindStringSubmatch on a line of the shape: each number is
\* followed by a space and its unit, the units by " /" and by ",", so the
\* pattern matches only if each group matches the whole of its part.
ShapeSubmatch(line) ==
    IF /\ StatsNumber(line.copied)
       /\ StatsUnit(line.cunit)
       /\ StatsNumber(line.total)
       /\ StatsUnit(line.tunit)
       /\ StatsPercent(line.percent)
    THEN <<line>>
    ELSE <<>>

\* The loop body on a line of the shape: the UpdateProgress calls it makes,
\* each as (percentage, copied, total) with the byte counts as int64.
ShapeUpdate(line) ==
    LET matches == ShapeSubmatch(line) IN
    IF matches = <<>> THEN <<>>
    ELSE LET percentage == ParseFloat(matches[1].percent) IN
         IF ~percentage.ok THEN <<>>
         ELSE << <<percentage.mant,
                   parseSize(matches[1].copied, matches[1].cunit),
                   parseSize(matches[1].total, matches[1].tunit)>> >>

\* The units parseSize gives a size for: a letter of K, M, G, T, P in either
\* case, then i or nothing, then B or b or nothing; B alone; and no unit.
ShapeUnits ==
    {<<l>> \o i \o b : l \in {"K", "M", "G", "T", "P", "k", "m", "g", "t", "p"},
                       i \in {<<>>, <<"i">>},
                       b \in {<<>>, <<"B">>, <<"b">>}}
    \cup {<<"B">>, <<>>}

ShapeLines ==
    [copied : {<<"5", "1", "2">>, <<"1", ".", "5">>}, cunit : ShapeUnits,
     total : {<<"1">>, <<"2">>}, tunit : ShapeUnits,
     percent : {<<"5", "0">>, <<"1">>}]

notLine == <<uiVars, lockVars, storeVars, raceVars, decVars, execVars, retryVars, pureVars>>

\* line := scanner.Text() and the loop body on it.
LineCall ==
    /\ lnPc = "call"
    /\ lnOut' = ShapeUpdate(lnLine)
    /\ lnPc' = "done"
    /\ UNCHANGED <<lnLine, notLine>>

InitLine ==
    /\ NewManager
    /\ now = 1
    /\ IdleRace
    /\ IdlePure
    /\ IdleDec
    /\ IdleExec
    /\ IdleRetry
    /\ IdleUi
    /\ IdleLock
    /\ lnLine \in ShapeLines
    /\ lnOut = <<>>
    /\ lnPc = "call"

NextLine == LineCall

SpecLine == InitLine /\ [][NextLine]_vars

\* C40: every line of the documented shape whose two units are units the
\* size parser accepts gives one UpdateProgress call, with the line's
\* percentage and the sizes parseSize gives: 512 B / 1 KiB, 50% and
\* 1.5 mib / 2 gib, 1% as well.
C40_DocumentedLinesDecoded ==
    lnPc = "done" =>
        lnOut = << <<ParseFloat(lnLine.percent).mant,
                     parseSize(lnLine.copied, lnLine.cunit),
                     parseSize(lnLine.total, lnLine.tunit)>> >>

====
